---- MODULE Spec2Model ----
(***************************************************************************)
(* A model of the Wordle solver core: the hint encoder, the constraint     *)
(* aggregator, the word filter, the probability map and the Game session   *)
(* of wordle.py, with the same functions of the wordle_fast.py revision.   *)
(***************************************************************************)
EXTENDS Integers, Sequences, FiniteSets, TLC

VARIABLES
    fn,          \* what runs: a pure function under call, or a revision's Game
    args,        \* the arguments of the current (pure) or of the last (Game) call
    ret,         \* what that call returned or raised: [exc, val]
    pc,          \* "call" before a pure call has run, "done" after; "game" in a Game
    self_answer,      \* Game.answer
    self_word_list,   \* Game.word_list
    self_guesses,     \* Game.guesses
    self_hints,       \* wordle_fast Game.hints (wordle.py keeps the hint in the Guess)
    self_games,       \* MultiGame.games: the boards, each [answer, guesses, hints]
    main_queue,       \* utils: the work queue, (item, index) pairs in FIFO order
    output,           \* utils: the shared output dict, index -> result, in insertion order
    processes,        \* utils: the workers, each [st, item, index]
    unfinished,       \* utils._batch_wrap: unfinished tasks of queue.Queue (join waits for 0)
    put_count         \* utils: how many items the caller has put so far

vars == <<fn, args, ret, pc, self_answer, self_word_list, self_guesses, self_hints,
          self_games, main_queue, output, processes, unfinished, put_count>>
game_vars == <<self_answer, self_word_list, self_guesses, self_hints, self_games>>
par_vars == <<main_queue, output, processes, unfinished, put_count>>

\* no parallel map is running
NoWorkers ==
    /\ main_queue = <<>>
    /\ output = <<>>
    /\ processes = <<>>
    /\ unfinished = 0
    /\ put_count = 0

(***************************************************************************)
(* Constants of the program and bounds of the model.                       *)
(***************************************************************************)
WORD_SIZE == 5
NUM_GUESSES == 6
MAX_GUESSES == 6

\* Words are drawn over the first NumLetters letters of the alphabet.
NumLetters == 3

Alphabet == <<"A", "B", "C", "D", "E", "F">>
Letters == {Alphabet[i] : i \in 1..NumLetters}

Range(s) == {s[i] : i \in DOMAIN s}

AllWords == [1..WORD_SIZE -> Letters]

\* The words the repository's tests play with.
TestWords ==
    { <<"G","H","O","S","T">>, <<"P","I","O","U","S">>, <<"S","L","O","S","H">>,
      <<"W","H","E","R","E">>, <<"T","H","E","R","E">>, <<"K","E","E","P","S">>,
      <<"A","P","P","L","E">>, <<"A","B","B","E","Y">>, <<"K","O","R","A","N">>,
      <<"A","A","R","O","N">>, <<"C","H","E","S","T">>, <<"C","R","A","N","E">>,
      <<"A","B","B","O","T">>, <<"B","E","A","C","H">>, <<"W","A","T","C","H">>,
      <<"H","A","T","C","H">>, <<"B","O","R","E","R">>, <<"R","O","R","E","R">>,
      <<"R","A","T","E","S">> }

Words == AllWords \cup TestWords

(***************************************************************************)
(* str.count, and the letter counts both encoders build.                   *)
(***************************************************************************)
count(word, letter) == Cardinality({i \in DOMAIN word : word[i] = letter})

\* l_count / letter_count: letter -> occurrences, for the letters of word
l_count(word) == [l \in Range(word) |-> count(word, l)]

repeated_letters(word) == {k \in DOMAIN l_count(word) : l_count(word)[k] > 1}

(***************************************************************************)
(* wordle._guess_mask                                                      *)
(***************************************************************************)
\* a first loop that tests "letter in answer" before the exact match
first_pass_membership_first(word, answer) ==
    [i \in 1..Len(word) |->
        IF word[i] \in Range(answer) THEN "P"
        ELSE IF answer[i] = word[i] THEN "C"
        ELSE "."]

\* the first loop: one of 'C', 'P', '.' per position
first_pass(word, answer) ==
    [i \in 1..Len(word) |->
        IF answer[i] = word[i] THEN "C"
        ELSE IF word[i] \in Range(answer) THEN "P"
        ELSE "."]

\* "Count all the exact matches first"
count_exact(guess, word, repeated_letter) ==
    Cardinality({i \in DOMAIN guess : guess[i] = "C" /\ word[i] = repeated_letter})

\* a second scan that demotes from the num_in_answer-th mark on (>= for >)
RECURSIVE demote_scan_off_by_one(_, _, _, _, _, _, _)
demote_scan_off_by_one(guess, scanned, word, repeated_letter, i, num_matched, num_in_answer) ==
    IF i > Len(scanned) THEN guess
    ELSE IF scanned[i] = "P" /\ word[i] = repeated_letter
         THEN demote_scan_off_by_one(
                  IF num_matched + 1 >= num_in_answer
                      THEN [guess EXCEPT ![i] = "."] ELSE guess,
                  scanned, word, repeated_letter, i + 1,
                  num_matched + 1, num_in_answer)
         ELSE demote_scan_off_by_one(guess, scanned, word, repeated_letter, i + 1,
                                     num_matched, num_in_answer)

\* The second scan for one repeated letter.  The loop enumerates the string
\* as it was when the loop began (scanned) and rebinds guess as it goes.
RECURSIVE demote_scan(_, _, _, _, _, _, _)
demote_scan(guess, scanned, word, repeated_letter, i, num_matched, num_in_answer) ==
    IF i > Len(scanned) THEN guess
    ELSE IF scanned[i] = "P" /\ word[i] = repeated_letter
         THEN demote_scan(
                  IF num_matched + 1 > num_in_answer
                      THEN [guess EXCEPT ![i] = "."] ELSE guess,
                  scanned, word, repeated_letter, i + 1,
                  num_matched + 1, num_in_answer)
         ELSE demote_scan(guess, scanned, word, repeated_letter, i + 1,
                          num_matched, num_in_answer)

\* The body of "for repeated_letter in repeated_letters", over the set todo.
RECURSIVE demote_all(_, _, _, _)
demote_all(guess, word, answer, todo) ==
    IF todo = {} THEN guess
    ELSE LET repeated_letter == CHOOSE l \in todo : TRUE
             rest == todo \ {repeated_letter}
         IN  IF repeated_letter \notin Range(answer)
                 THEN demote_all(guess, word, answer, rest)
                 ELSE demote_all(
                          demote_scan(guess, guess, word, repeated_letter, 1,
                                      count_exact(guess, word, repeated_letter),
                                      l_count(answer)[repeated_letter]),
                          word, answer, rest)

_guess_mask(word, answer) ==
    demote_all(first_pass(word, answer), word, answer, repeated_letters(word))

(***************************************************************************)
(* str.upper, Word and Letter of wordle.py                                 *)
(***************************************************************************)
LowerCase == <<"a", "b", "c", "d", "e", "f", "g", "h", "i", "j", "k", "l", "m",
               "n", "o", "p", "q", "r", "s", "t", "u", "v", "w", "x", "y", "z">>
UpperCase == <<"A", "B", "C", "D", "E", "F", "G", "H", "I", "J", "K", "L", "M",
               "N", "O", "P", "Q", "R", "S", "T", "U", "V", "W", "X", "Y", "Z">>

\* the case tables of str.upper and str.lower
UpperOf == [c \in Range(LowerCase) |->
               UpperCase[CHOOSE i \in DOMAIN LowerCase : LowerCase[i] = c]]
LowerOf == [c \in Range(UpperCase) |->
               LowerCase[CHOOSE i \in DOMAIN UpperCase : UpperCase[i] = c]]

upper_char(c) == IF c \in DOMAIN UpperOf THEN UpperOf[c] ELSE c

\* str.upper()
upper(word) == [i \in 1..Len(word) |-> upper_char(word[i])]

\* str.lower(), for the lower-case inputs a caller may type
lower_char(c) == IF c \in DOMAIN LowerOf THEN LowerOf[c] ELSE c
lower(word) == [i \in 1..Len(word) |-> lower_char(word[i])]

\* Word.__init__ / the word setter: WrongWordSize unless len(word) == WORD_SIZE
WrongWordSize(word) == Len(word) # WORD_SIZE

\* Word.__eq__ and "guess in word_list": the upper-cased strings are compared
word_in(word, list) == \E i \in DOMAIN list : upper(list[i]) = upper(word)

\* re.match(r'[a-zA-Z]+$', s): letters only, "$" also matching before a final newline
AlphaChars == Range(LowerCase) \cup Range(UpperCase)
is_alpha_char(c) == c \in AlphaChars
re_match_alpha(s) ==
    /\ Len(s) > 0
    /\ \/ \A i \in 1..Len(s) : is_alpha_char(s[i])
       \/ /\ Len(s) > 1
          /\ s[Len(s)] = "\n"
          /\ \A i \in 1..(Len(s) - 1) : is_alpha_char(s[i])

\* GuessState.from_basic
from_basic(basic_id) ==
    CASE basic_id = "." -> "WRONG"
      [] basic_id = "P" -> "POSITION"
      [] basic_id = "C" -> "CORRECT"

\* Letter(letter, position, state); positions count from 0 as in the source
Letter(letter, position, state) ==
    [guess |-> upper_char(letter), position |-> position, state |-> state]

(***************************************************************************)
(* wordle_fast.get_hint_from_guess                                         *)
(***************************************************************************)
\* a first loop without the "letter in answer" test
fast_first_pass_no_membership(guess, answer) ==
    [i \in 1..Len(guess) |->
        IF answer[i] = guess[i] THEN "CORRECT" ELSE "MISPLACED"]

fast_first_pass(guess, answer) ==
    [i \in 1..Len(guess) |->
        IF answer[i] = guess[i] THEN "CORRECT"
        ELSE IF guess[i] \in Range(answer) THEN "MISPLACED"
        ELSE "WRONG"]

fast_count_exact(hint, guess, repeated_letter) ==
    Cardinality({i \in DOMAIN hint : hint[i] = "CORRECT" /\ guess[i] = repeated_letter})

RECURSIVE fast_demote_scan(_, _, _, _, _, _, _)
fast_demote_scan(hint, scanned, guess, repeated_letter, i, num_matched, num_in_answer) ==
    IF i > Len(scanned) THEN hint
    ELSE IF scanned[i] = "MISPLACED" /\ guess[i] = repeated_letter
         THEN fast_demote_scan(
                  IF num_matched + 1 > num_in_answer
                      THEN [hint EXCEPT ![i] = "WRONG"] ELSE hint,
                  scanned, guess, repeated_letter, i + 1,
                  num_matched + 1, num_in_answer)
         ELSE fast_demote_scan(hint, scanned, guess, repeated_letter, i + 1,
                               num_matched, num_in_answer)

RECURSIVE fast_demote_all(_, _, _, _)
fast_demote_all(hint, guess, answer, todo) ==
    IF todo = {} THEN hint
    ELSE LET repeated_letter == CHOOSE l \in todo : TRUE
             rest == todo \ {repeated_letter}
         IN  IF repeated_letter \notin Range(answer)
                 THEN fast_demote_all(hint, guess, answer, rest)
                 ELSE fast_demote_all(
                          fast_demote_scan(hint, hint, guess, repeated_letter, 1,
                                           fast_count_exact(hint, guess, repeated_letter),
                                           l_count(answer)[repeated_letter]),
                          guess, answer, rest)

get_hint_from_guess(guess, answer) ==
    LET g == upper(guess)
        a == upper(answer)
    IN  fast_demote_all(fast_first_pass(g, a), g, a, repeated_letters(g))

(***************************************************************************)
(* dict and set helpers                                                    *)
(***************************************************************************)
EmptyDict == [k \in {} |-> 0]

\* d[k] = v
dict_set(d, k, v) == [x \in DOMAIN d \cup {k} |-> IF x = k THEN v ELSE d[x]]

\* d.get(k, default)
dict_get(d, k, default) == IF k \in DOMAIN d THEN d[k] ELSE default

\* set.add for Letter objects: Letter.__eq__ and __hash__ look at the letter
\* and the position only, so an equal Letter already in the set is kept.
add_letter(set, l) ==
    IF \E e \in set : e.guess = l.guess /\ e.position = l.position
        THEN set
        ELSE set \cup {l}

(***************************************************************************)
(* wordle._get_information_from_guesses                                    *)
(***************************************************************************)
\* "for letter in guess": st carries correct, wrong_position, not_in_word and
\* this guess's include and exclude.
RECURSIVE scan_letters(_, _, _)
scan_letters(guess, i, st) ==
    IF i > Len(guess) THEN st
    ELSE LET letter == guess[i]
             key == letter.guess
             inc == dict_set(st.include, key, dict_get(st.include, key, 0))
         IN  scan_letters(guess, i + 1,
                 CASE letter.state = "CORRECT" ->
                          [st EXCEPT !.correct = add_letter(@, letter),
                                     !.include = dict_set(inc, key, inc[key] + 1)]
                   [] letter.state = "POSITION" ->
                          [st EXCEPT !.wrong_position = add_letter(@, letter),
                                     !.include = dict_set(inc, key, inc[key] + 1)]
                   [] letter.state = "WRONG" ->
                          [st EXCEPT !.not_in_word = @ \cup {letter.guess},
                                     !.include = inc,
                                     !.exclude = @ \cup {key}]
                   [] OTHER -> [st EXCEPT !.include = inc])

\* caps for every credited letter, without the "letter in exclude" test
capped_any_included(include, exclude) ==
    {letter \in DOMAIN include : include[letter] > 0}

\* "for letter in include": the caps this guess derives, written over the old
capped(include, exclude) ==
    {letter \in DOMAIN include : include[letter] > 0 /\ letter \in exclude}

set_caps(max_occurrences, include, exclude) ==
    LET caps == capped(include, exclude)
    IN  [letter \in DOMAIN max_occurrences \cup caps |->
            IF letter \in caps THEN include[letter] ELSE max_occurrences[letter]]

\* an aggregation that starts the three sets afresh at every guess
RECURSIVE aggregate_guesses_reset(_, _, _)
aggregate_guesses_reset(guesses, n, info) ==
    IF n > Len(guesses) THEN info
    ELSE LET st == scan_letters(guesses[n], 1,
                       [correct |-> {},
                        wrong_position |-> {},
                        not_in_word |-> {},
                        include |-> EmptyDict,
                        exclude |-> {}])
         IN  aggregate_guesses_reset(guesses, n + 1,
                 [correct |-> st.correct,
                  wrong_position |-> st.wrong_position,
                  not_in_word |-> st.not_in_word,
                  max_occurrences |->
                      set_caps(info.max_occurrences, st.include, st.exclude)])

RECURSIVE aggregate_guesses(_, _, _)
aggregate_guesses(guesses, n, info) ==
    IF n > Len(guesses) THEN info
    ELSE LET st == scan_letters(guesses[n], 1,
                       [correct |-> info.correct,
                        wrong_position |-> info.wrong_position,
                        not_in_word |-> info.not_in_word,
                        include |-> EmptyDict,
                        exclude |-> {}])
         IN  aggregate_guesses(guesses, n + 1,
                 [correct |-> st.correct,
                  wrong_position |-> st.wrong_position,
                  not_in_word |-> st.not_in_word,
                  max_occurrences |->
                      set_caps(info.max_occurrences, st.include, st.exclude)])

_get_information_from_guesses(guesses) ==
    aggregate_guesses(guesses, 1,
        [correct |-> {}, wrong_position |-> {}, not_in_word |-> {},
         max_occurrences |-> EmptyDict])

(***************************************************************************)
(* wordle_fast.get_info_from_hints                                         *)
(***************************************************************************)
\* "for j, state in enumerate(hint)"; j counts from 0 in the source
RECURSIVE fast_scan_hint(_, _, _, _)
fast_scan_hint(guess, hint, i, st) ==
    IF i > Len(hint) THEN st
    ELSE LET letter == guess[i]
             j == i - 1
             inc == dict_set(st.include, letter, dict_get(st.include, letter, 0))
         IN  fast_scan_hint(guess, hint, i + 1,
                 CASE hint[i] = "CORRECT" ->
                          [st EXCEPT !.correct = dict_set(@, j, letter),
                                     !.include = dict_set(inc, letter, inc[letter] + 1)]
                   [] hint[i] = "MISPLACED" ->
                          [st EXCEPT !.wrong_position = @ \cup {<<letter, j>>},
                                     !.include = dict_set(inc, letter, inc[letter] + 1)]
                   [] hint[i] = "WRONG" ->
                          [st EXCEPT !.not_in_word = @ \cup {letter},
                                     !.include = inc,
                                     !.exclude = @ \cup {letter}]
                   [] OTHER -> [st EXCEPT !.include = inc])

\* "for letter in include" of get_info_from_hints
fast_set_caps(max_occurrences, include, exclude) ==
    LET caps == capped(include, exclude)
    IN  [letter \in DOMAIN max_occurrences \cup caps |->
            IF letter \in caps THEN include[letter] ELSE max_occurrences[letter]]

RECURSIVE fast_aggregate(_, _, _, _)
fast_aggregate(guesses, hints, n, info) ==
    IF n > Len(hints) THEN info
    ELSE LET st == fast_scan_hint(guesses[n], hints[n], 1,
                       [correct |-> info.correct,
                        wrong_position |-> info.wrong_position,
                        not_in_word |-> info.not_in_word,
                        include |-> EmptyDict,
                        exclude |-> {}])
         IN  fast_aggregate(guesses, hints, n + 1,
                 [correct |-> st.correct,
                  wrong_position |-> st.wrong_position,
                  not_in_word |-> st.not_in_word,
                  max_occurrences |->
                      fast_set_caps(info.max_occurrences, st.include, st.exclude)])

get_info_from_hints(guesses, hints) ==
    fast_aggregate(guesses, hints, 1,
        [correct |-> EmptyDict, wrong_position |-> {}, not_in_word |-> {},
         max_occurrences |-> EmptyDict])

(***************************************************************************)
(* The lexicon file and load_words                                         *)
(***************************************************************************)
\* The model reads the first LexSize lines of the word list file.
LexSize == 3

\* word_lists/uk.txt, as the lines of the file (the case is the file's)
uk_txt ==
    << <<"c","r","a","n","e">>, <<"c","h","e","s","t">>, <<"a","a","r","o","n">>,
       <<"k","o","r","a","n">>, <<"a","b","b","e","y">>, <<"p","i","o","u","s">>,
       <<"k","e","e","p","s">> >>

\* wordle.load_words: a Word per line, the line kept as read
load_words == SubSeq(uk_txt, 1, LexSize)

\* wordle_fast._load_str / load_words: every line upper-cased
fast_load_words == [i \in 1..LexSize |-> upper(uk_txt[i])]

(***************************************************************************)
(* wordle.filter_words_from_info                                           *)
(***************************************************************************)
\* a filter that applies not_in_word to every letter, credited or not
filter_words_from_info_no_exemption(correct, wrong_position, not_in_word, max_occurrences, word_list) ==
    LET list == IF word_list = <<>> THEN load_words ELSE word_list
        keep(entry) ==
            LET w == upper(entry)
                exceeded_max ==
                    \E letter \in DOMAIN max_occurrences :
                        count(w, letter) > max_occurrences[letter]
            IN  /\ \A c \in correct : c.guess = w[c.position + 1]
                /\ \A p \in wrong_position : p.guess \in Range(w)
                /\ \A p \in wrong_position : p.guess # w[p.position + 1]
                /\ \A n \in not_in_word : n \notin Range(w)
                /\ ~exceeded_max
    IN  SelectSeq(list, keep)

filter_words_from_info(correct, wrong_position, not_in_word, max_occurrences, word_list) ==
    LET list == IF word_list = <<>> THEN load_words ELSE word_list
        answer_has_letter ==
            {c.guess : c \in correct} \cup {p.guess : p \in wrong_position}
        keep(entry) ==
            LET w == upper(entry)
                exceeded_max ==
                    \E letter \in DOMAIN max_occurrences :
                        count(w, letter) > max_occurrences[letter]
            IN  /\ \A c \in correct : c.guess = w[c.position + 1]
                /\ \A p \in wrong_position : p.guess \in Range(w)
                /\ \A p \in wrong_position : p.guess # w[p.position + 1]
                /\ \A n \in not_in_word \ answer_has_letter : n \notin Range(w)
                /\ ~exceeded_max
    IN  SelectSeq(list, keep)

(***************************************************************************)
(* wordle_fast.filter_words_from_info                                      *)
(***************************************************************************)
fast_filter_words_from_info(word_list, correct, wrong_position, not_in_word, max_occurrences) ==
    LET answer_has_letter ==
            {correct[pos] : pos \in DOMAIN correct} \cup {p[1] : p \in wrong_position}
        keep(w) ==
            LET exceeded_max ==
                    \E letter \in DOMAIN max_occurrences :
                        count(w, letter) > max_occurrences[letter]
            IN  /\ \A pos \in DOMAIN correct : w[pos + 1] = correct[pos]
                /\ \A p \in wrong_position : p[1] \in Range(w)
                /\ \A p \in wrong_position : w[p[2] + 1] # p[1]
                /\ \A letter \in not_in_word \ answer_has_letter : letter \notin Range(w)
                /\ ~exceeded_max
    IN  SelectSeq(word_list, keep)

(***************************************************************************)
(* wordle.Game                                                             *)
(***************************************************************************)
\* what a call returned, or the exception it raised
Returned(v) == [exc |-> "none", val |-> v]
Raised(e) == [exc |-> e, val |-> <<>>]
NoCall == [exc |-> "nocall", val |-> <<>>]

\* Game.is_won
is_won(guesses) ==
    IF Len(guesses) = 0 THEN FALSE
    ELSE \A i \in DOMAIN guesses[Len(guesses)] :
             guesses[Len(guesses)][i].state = "CORRECT"

\* Game.is_over
is_over(guesses) ==
    IF Len(guesses) >= NUM_GUESSES THEN TRUE ELSE is_won(guesses)

\* Game.information
information(guesses) == _get_information_from_guesses(guesses)

\* Game.possible_answers, through Game.filter_words_from_info
Game_possible_answers(guesses, word_list) ==
    LET info == information(guesses)
    IN  filter_words_from_info(info.correct, info.wrong_position, info.not_in_word,
                               info.max_occurrences, word_list)

\* the Guess that Game.guess builds from the mask
guess_states(word, guess_str) ==
    [i \in 1..Len(guess_str) |-> Letter(word[i], i - 1, from_basic(guess_str[i]))]

\* a Game.guess without the word-list test
guess_outcome_no_list_check(guesses, word_list, answer, _guess, skip_validation) ==
    IF is_over(guesses)
        THEN [ret |-> Returned(FALSE), guesses |-> guesses]
    ELSE IF WrongWordSize(_guess)
        THEN [ret |-> Raised("ValueError"), guesses |-> guesses]
    ELSE IF ~re_match_alpha(upper(_guess))
        THEN [ret |-> Raised("ValueError"), guesses |-> guesses]
    ELSE [ret |-> Returned(TRUE),
          guesses |-> Append(guesses,
                          guess_states(upper(_guess),
                                       _guess_mask(upper(_guess), upper(answer))))]

\* Game.guess: what it returns or raises, and the history it leaves
guess_outcome(guesses, word_list, answer, _guess, skip_validation) ==
    IF is_over(guesses)
        THEN [ret |-> Returned(FALSE), guesses |-> guesses]
    ELSE IF WrongWordSize(_guess)
        THEN [ret |-> Raised("ValueError"), guesses |-> guesses]
    ELSE IF ~word_in(_guess, word_list) /\ ~skip_validation
        THEN [ret |-> Raised("ValueError"), guesses |-> guesses]
    ELSE IF ~re_match_alpha(upper(_guess))
        THEN [ret |-> Raised("ValueError"), guesses |-> guesses]
    ELSE [ret |-> Returned(TRUE),
          guesses |-> Append(guesses,
                          guess_states(upper(_guess),
                                       _guess_mask(upper(_guess), upper(answer))))]

(***************************************************************************)
(* wordle_fast.Game                                                        *)
(***************************************************************************)
\* None, as make_guess returns it
None == <<"None">>

fast_is_won(guesses, hints) ==
    IF Len(guesses) = 0 THEN FALSE
    ELSE \A i \in DOMAIN hints[Len(hints)] : hints[Len(hints)][i] = "CORRECT"

fast_is_over(guesses, hints) ==
    IF Len(guesses) >= MAX_GUESSES THEN TRUE ELSE fast_is_won(guesses, hints)

\* Game.possible_words
Game_possible_words(guesses, hints, word_list) ==
    LET info == get_info_from_hints(guesses, hints)
    IN  fast_filter_words_from_info(word_list, info.correct, info.wrong_position,
                                    info.not_in_word, info.max_occurrences)

\* Game.score
fast_score(guesses, hints) ==
    IF fast_is_won(guesses, hints) THEN Len(guesses) ELSE -1

\* a make_guess without the is_over test
make_guess_outcome_no_over_check(guesses, hints, word_list, answer, guess_arg) ==
    LET guess == upper(guess_arg)
    IN  IF Len(guess) # 5
            THEN [ret |-> Raised("AssertionError"), guesses |-> guesses, hints |-> hints]
        ELSE IF ~(\E i \in DOMAIN word_list : word_list[i] = guess)
            THEN [ret |-> Raised("AssertionError"), guesses |-> guesses, hints |-> hints]
        ELSE LET hint == get_hint_from_guess(guess, answer)
             IN  [ret |-> Returned(hint),
                  guesses |-> Append(guesses, guess),
                  hints |-> Append(hints, hint)]

\* Game.make_guess: what it returns or raises, and the history it leaves
make_guess_outcome(guesses, hints, word_list, answer, guess_arg) ==
    LET guess == upper(guess_arg)
    IN  IF fast_is_over(guesses, hints)
            THEN [ret |-> Returned(None), guesses |-> guesses, hints |-> hints]
        ELSE IF Len(guess) # 5
            THEN [ret |-> Raised("AssertionError"), guesses |-> guesses, hints |-> hints]
        ELSE IF ~(\E i \in DOMAIN word_list : word_list[i] = guess)
            THEN [ret |-> Raised("AssertionError"), guesses |-> guesses, hints |-> hints]
        ELSE LET hint == get_hint_from_guess(guess, answer)
             IN  [ret |-> Returned(hint),
                  guesses |-> Append(guesses, guess),
                  hints |-> Append(hints, hint)]

(***************************************************************************)
(* The sessions: a Game of either revision is built, then guess calls      *)
(* arrive with any of the inputs.                                          *)
(***************************************************************************)
\* a word list handed to the constructor instead of the default file
custom_list ==
    << <<"B","A","B","C","C">>, <<"B","A","A","C","A">>, <<"B","A","C","C","C">>,
       <<"A","A","B","B","C">>, <<"B","A","B","B","C">>, <<"C","A","B","B","C">>,
       <<"A","C","C","A","A">> >>

\* a five-letter word that is in neither list
NonListWord == <<"E","E","R","I","E">>

\* the word_list arguments: none (the default file is loaded) or a list
WordListArgs == {<<>>, SubSeq(custom_list, 1, LexSize)}

\* upper for a lower-case word, lower for an upper-case one
other_case(word) == IF upper(word) = word THEN lower(word) ELSE upper(word)

\* the answers: the words of the list and a word that is not in the list
AnswerArgs(word_list) == Range(word_list) \cup {NonListWord}

\* the calls of guess: list words as listed, one in the other case, a word
\* not in the list (with and without skip_validation), a word of the wrong
\* size, a word with a digit
GuessCalls(word_list) ==
    [_guess : Range(word_list) \cup {other_case(word_list[1]), NonListWord,
                                     <<"c","h","e","s","t","s">>},
     skip_validation : {FALSE}]
        \cup [_guess : {NonListWord, <<"A","B","1","B","A">>},
              skip_validation : {TRUE}]

\* the words make_guess is called with
GuessArgs(word_list) == {c._guess : c \in GuessCalls(word_list)}

InitGame ==
    /\ fn \in {"wordle.Game", "wordle_fast.Game"}
    /\ pc = "game"
    /\ args = <<>>
    /\ ret = NoCall
    /\ \E word_list \in WordListArgs :
           self_word_list =
               IF word_list # <<>> THEN word_list
               ELSE IF fn = "wordle.Game" THEN load_words ELSE fast_load_words
    /\ \E answer \in AnswerArgs(self_word_list) :
           self_answer = IF fn = "wordle.Game" THEN answer ELSE upper(answer)
    /\ self_guesses = <<>>
    /\ self_hints = <<>>
    /\ self_games = <<>>
    /\ NoWorkers

\* a call of wordle.Game.guess
Game_guess ==
    /\ fn = "wordle.Game"
    /\ \E call \in GuessCalls(self_word_list) :
           LET out == guess_outcome(self_guesses, self_word_list, self_answer,
                                    call._guess, call.skip_validation)
           IN  /\ args' = call
               /\ ret' = out.ret
               /\ self_guesses' = out.guesses
    /\ UNCHANGED <<fn, pc, self_answer, self_word_list, self_games, self_hints>>
    /\ UNCHANGED par_vars

\* a call of wordle_fast.Game.make_guess
Game_make_guess ==
    /\ fn = "wordle_fast.Game"
    /\ \E guess \in GuessArgs(self_word_list) :
           LET out == make_guess_outcome(self_guesses, self_hints, self_word_list,
                                         self_answer, guess)
           IN  /\ args' = [guess |-> guess]
               /\ ret' = out.ret
               /\ self_guesses' = out.guesses
               /\ self_hints' = out.hints
    /\ UNCHANGED <<fn, pc, self_answer, self_word_list, self_games>>
    /\ UNCHANGED par_vars

NextGame == Game_guess \/ Game_make_guess

SpecGame == InitGame /\ [][NextGame]_vars

(***************************************************************************)
(* Calls of the hint encoders: the inputs are drawn at Init, the action    *)
(* runs the function.                                                      *)
(***************************************************************************)
InitMask ==
    /\ fn \in {"_guess_mask", "get_hint_from_guess"}
    /\ pc = "call"
    /\ args \in [word : Words, answer : Words]
    /\ ret = NoCall
    /\ self_answer = <<>>
    /\ self_word_list = <<>>
    /\ self_guesses = <<>>
    /\ self_hints = <<>>
    /\ self_games = <<>>
    /\ NoWorkers

Call_guess_mask ==
    /\ fn = "_guess_mask"
    /\ pc = "call"
    /\ ret' = Returned(_guess_mask(args.word, args.answer))
    /\ pc' = "done"
    /\ UNCHANGED <<fn, args, game_vars>>
    /\ UNCHANGED par_vars

Call_get_hint_from_guess ==
    /\ fn = "get_hint_from_guess"
    /\ pc = "call"
    /\ ret' = Returned(get_hint_from_guess(args.word, args.answer))
    /\ pc' = "done"
    /\ UNCHANGED <<fn, args, game_vars>>
    /\ UNCHANGED par_vars

NextMask == Call_guess_mask \/ Call_get_hint_from_guess

SpecMask == InitMask /\ [][NextMask]_vars

(***************************************************************************)
(* The hint alphabet of the two revisions                                  *)
(***************************************************************************)
IsCorrect(x) == x \in {"C", "CORRECT"}
IsMisplaced(x) == x \in {"P", "POSITION", "MISPLACED"}
IsWrong(x) == x \in {".", "WRONG"}

Min(a, b) == IF a < b THEN a ELSE b

\* the positions of word that hold letter and are credited by hint
Credited(word, hint, letter) ==
    {i \in DOMAIN word : word[i] = letter /\ (IsCorrect(hint[i]) \/ IsMisplaced(hint[i]))}

\* the repeated-letter rule for one guess, answer and hint
RepeatedLetterRule(word, answer, hint) ==
    /\ Len(hint) = Len(word)
    /\ \A i \in DOMAIN word : IsCorrect(hint[i]) \/ IsMisplaced(hint[i]) \/ IsWrong(hint[i])
    /\ \A letter \in Range(word) :
           Cardinality(Credited(word, hint, letter)) =
               Min(count(word, letter), count(answer, letter))
    /\ \A i \in DOMAIN word : word[i] = answer[i] => IsCorrect(hint[i])
    /\ \A i \in DOMAIN word : word[i] # answer[i] => ~IsCorrect(hint[i])
    /\ \A i, j \in DOMAIN word :
           (/\ i < j
            /\ word[i] = word[j]
            /\ word[i] # answer[i]
            /\ word[j] # answer[j]
            /\ IsMisplaced(hint[j])) => IsMisplaced(hint[i])

\* C2: whenever an encoder has returned, the hint credits each letter of the
\* guess min(count in guess, count in answer) times, every matching position
\* is CORRECT, and the MISPLACED marks of a letter are its leftmost
\* non-matching occurrences, the later ones being WRONG.
C2_RepeatedLetters ==
    pc = "done" => RepeatedLetterRule(args.word, args.answer, ret.val)

\* a letter three times in the guess and fewer times in the answer, with one
\* occurrence MISPLACED and a later one WRONG
C2_Witness ==
    /\ pc = "done"
    /\ \E i, j \in DOMAIN args.word :
           /\ i < j
           /\ args.word[i] = args.word[j]
           /\ count(args.word, args.word[i]) = 3
           /\ IsMisplaced(ret.val[i])
           /\ IsWrong(ret.val[j])

\* C3: the encoder applied to a word and itself returns CORRECT everywhere.
C3_SelfAllCorrect ==
    (pc = "done" /\ args.word = args.answer) =>
        /\ Len(ret.val) = WORD_SIZE
        /\ \A i \in DOMAIN ret.val : IsCorrect(ret.val[i])

C3_Witness ==
    /\ pc = "done"
    /\ args.word = args.answer
    /\ repeated_letters(args.word) # {}
    /\ Cardinality(Range(args.word)) > 1

\* C4: a guess and an answer that share no letter give WRONG everywhere.
C4_DisjointAllWrong ==
    (pc = "done" /\ Range(args.word) \cap Range(args.answer) = {}) =>
        /\ Len(ret.val) = WORD_SIZE
        /\ \A i \in DOMAIN ret.val : IsWrong(ret.val[i])

C4_Witness ==
    /\ pc = "done"
    /\ Range(args.word) \cap Range(args.answer) = {}
    /\ repeated_letters(args.word) # {}
    /\ Cardinality(Range(args.answer)) > 1

(***************************************************************************)
(* The session seen through either revision                                *)
(***************************************************************************)
\* the possible-answers pool of a history
Pool(revision, guesses, hints, word_list) ==
    IF revision = "wordle.Game"
        THEN Game_possible_answers(guesses, word_list)
        ELSE Game_possible_words(guesses, hints, word_list)

Over(revision, guesses, hints) ==
    IF revision = "wordle.Game" THEN is_over(guesses) ELSE fast_is_over(guesses, hints)

Won(revision, guesses, hints) ==
    IF revision = "wordle.Game" THEN is_won(guesses) ELSE fast_is_won(guesses, hints)

\* the answer is a member of the word list (Word.__eq__ in wordle.py, string
\* equality in wordle_fast.py)
AnswerListed ==
    IF fn = "wordle.Game"
        THEN word_in(self_answer, self_word_list)
        ELSE self_answer \in Range(self_word_list)

AnswerIn(list) ==
    IF fn = "wordle.Game" THEN word_in(self_answer, list) ELSE self_answer \in Range(list)

\* C1: in a Game whose answer is in its word list, the possible-answers pool
\* of the recorded history contains the answer, after any accepted guesses.
C1_Soundness ==
    (pc = "game" /\ AnswerListed) =>
        AnswerIn(Pool(fn, self_guesses, self_hints, self_word_list))

\* two guesses in, not won, a cap derived, and the pool smaller than the list
C1_Witness ==
    /\ pc = "game"
    /\ fn = "wordle.Game"
    /\ AnswerListed
    /\ Len(self_guesses) >= 2
    /\ ~is_won(self_guesses)
    /\ DOMAIN information(self_guesses).max_occurrences # {}
    /\ Len(Game_possible_answers(self_guesses, self_word_list)) < Len(self_word_list)

\* the history without its last guess
ButLast(seq) == SubSeq(seq, 1, Len(seq) - 1)

\* C5: the pool after an accepted guess is a part of the pool before that
\* guess (the history without it), so its size never increases.
C5_Monotonic ==
    (pc = "game" /\ Len(self_guesses) >= 1) =>
        LET before == Pool(fn, ButLast(self_guesses), ButLast(self_hints), self_word_list)
            after == Pool(fn, self_guesses, self_hints, self_word_list)
        IN  /\ Range(after) \subseteq Range(before)
            /\ Len(after) <= Len(before)

\* the pool shrank at the first guess and again at the second
C5_Witness ==
    /\ pc = "game"
    /\ Len(self_guesses) >= 2
    /\ LET first == Pool(fn, SubSeq(self_guesses, 1, 1), SubSeq(self_hints, 1, 1),
                         self_word_list)
           second == Pool(fn, SubSeq(self_guesses, 1, 2), SubSeq(self_hints, 1, 2),
                          self_word_list)
       IN  /\ Len(first) < Len(self_word_list)
           /\ Len(second) < Len(first)
           /\ Len(second) > 0

(***************************************************************************)
(* The recorded history as (letter, position, state) marks                 *)
(***************************************************************************)
\* the marks of guess n of the history: <<letter, position, state>>, the
\* position counted from 0, the state one of CORRECT, MISPLACED, WRONG
Marks(n) ==
    IF fn = "wordle.Game"
        THEN {<<self_guesses[n][i].guess, self_guesses[n][i].position,
                CASE self_guesses[n][i].state = "CORRECT" -> "CORRECT"
                  [] self_guesses[n][i].state = "POSITION" -> "MISPLACED"
                  [] OTHER -> "WRONG">> : i \in DOMAIN self_guesses[n]}
        ELSE {<<self_guesses[n][i], i - 1, self_hints[n][i]>> : i \in DOMAIN self_guesses[n]}

AllMarks == UNION {Marks(n) : n \in DOMAIN self_guesses}

\* how often guess n credits letter (CORRECT or MISPLACED)
IncludedCount(n, letter) ==
    Cardinality({m \in Marks(n) : m[1] = letter /\ m[3] \in {"CORRECT", "MISPLACED"}})

\* guess n both credits letter and marks it WRONG
CapsLetter(n, letter) ==
    /\ IncludedCount(n, letter) > 0
    /\ \E m \in Marks(n) : m[1] = letter /\ m[3] = "WRONG"

\* the aggregated constraint set of the session, in one shape for both
\* revisions: sets of <<letter, position>> pairs, a letter set, a cap map
SessionInfo ==
    IF fn = "wordle.Game"
        THEN LET info == information(self_guesses)
             IN  [correct |-> {<<c.guess, c.position>> : c \in info.correct},
                  wrong_position |-> {<<p.guess, p.position>> : p \in info.wrong_position},
                  not_in_word |-> info.not_in_word,
                  max_occurrences |-> info.max_occurrences]
        ELSE LET info == get_info_from_hints(self_guesses, self_hints)
             IN  [correct |-> {<<info.correct[pos], pos>> : pos \in DOMAIN info.correct},
                  wrong_position |-> info.wrong_position,
                  not_in_word |-> info.not_in_word,
                  max_occurrences |-> info.max_occurrences]

\* the last guess that derives a cap for letter (0 when none does)
RECURSIVE LastCapping(_, _)
LastCapping(n, letter) ==
    IF n = 0 THEN 0
    ELSE IF CapsLetter(n, letter) THEN n
    ELSE LastCapping(n - 1, letter)

\* C8: the aggregated constraint set holds exactly the CORRECT pairs, exactly
\* the MISPLACED pairs and exactly the letters marked WRONG; max_occurrences
\* has an entry exactly for the letters some guess both credits and marks
\* WRONG, its value the credited count in such a guess (the last one); and
\* answer CHEST, guess CRANE gives {C at 0}, {E at 4}, {A, R, N} and no cap.
C8_Aggregation ==
    pc = "game" =>
        LET info == SessionInfo
            marks == AllMarks
            letters == {m[1] : m \in marks}
        IN  /\ info.correct = {<<m[1], m[2]>> : m \in {x \in marks : x[3] = "CORRECT"}}
            /\ info.wrong_position =
                   {<<m[1], m[2]>> : m \in {x \in marks : x[3] = "MISPLACED"}}
            /\ info.not_in_word = {m[1] : m \in {x \in marks : x[3] = "WRONG"}}
            /\ \A letter \in letters :
                   LET last == LastCapping(Len(self_guesses), letter)
                   IN  IF last = 0
                           THEN letter \notin DOMAIN info.max_occurrences
                           ELSE /\ letter \in DOMAIN info.max_occurrences
                                /\ info.max_occurrences[letter] =
                                       IncludedCount(last, letter)
            /\ DOMAIN info.max_occurrences \subseteq letters
            /\ (/\ upper(self_answer) = <<"C","H","E","S","T">>
                /\ Len(self_guesses) = 1
                /\ letters = {"C","R","A","N","E"})
               => /\ info.correct = {<<"C", 0>>}
                  /\ info.wrong_position = {<<"E", 4>>}
                  /\ info.not_in_word = {"A", "R", "N"}
                  /\ info.max_occurrences = EmptyDict

\* a history of two guesses or more in which a guess derived a cap and
\* another derived none
C8_Witness ==
    /\ pc = "game"
    /\ Len(self_guesses) >= 2
    /\ DOMAIN SessionInfo.max_occurrences # {}
    /\ \E n \in DOMAIN self_guesses : \A m \in Marks(n) : ~CapsLetter(n, m[1])
    /\ SessionInfo.correct # {}
    /\ SessionInfo.wrong_position # {}

(***************************************************************************)
(* The guess call: rejection and the session's state machine               *)
(***************************************************************************)
\* the word of a call's arguments, and whether the call validates it
CallWord(a) == IF fn = "wordle.Game" THEN a._guess ELSE a.guess
CallValidates(a) == IF fn = "wordle.Game" THEN ~a.skip_validation ELSE TRUE

\* the word is a member of the Game's word list
Listed(w) ==
    IF fn = "wordle.Game"
        THEN word_in(w, self_word_list)
        ELSE upper(w) \in Range(self_word_list)

HistoryUnchanged == self_guesses' = self_guesses /\ self_hints' = self_hints

\* C9 as stated: a guess call (with validation on) on a terminal session, or
\* with a word not of length 5, or with a word not in the word list, leaves
\* the history unchanged and reports an error.
C9_Original ==
    [][(/\ pc = "game"
        /\ CallValidates(args')
        /\ \/ Over(fn, self_guesses, self_hints)
           \/ Len(CallWord(args')) # WORD_SIZE
           \/ ~Listed(CallWord(args')))
       => (HistoryUnchanged /\ ret'.exc \notin {"none", "nocall"})]_vars

\* C9 as amended: such a call never changes the history; on a terminal
\* session it returns False (None in wordle_fast) and raises nothing,
\* whatever the word; on a session in progress a word not of length 5, or a
\* word not in the list when skip_validation is not set, raises ValueError
\* (AssertionError in wordle_fast).
C9_Rejection ==
    [][pc = "game" =>
        /\ Over(fn, self_guesses, self_hints) =>
               /\ HistoryUnchanged
               /\ ret'.exc = "none"
               /\ ret'.val = (IF fn = "wordle.Game" THEN FALSE ELSE None)
        /\ (/\ ~Over(fn, self_guesses, self_hints)
            /\ \/ Len(CallWord(args')) # WORD_SIZE
               \/ ~Listed(CallWord(args')) /\ CallValidates(args'))
           => /\ HistoryUnchanged
              /\ ret'.exc = (IF fn = "wordle.Game" THEN "ValueError" ELSE "AssertionError")]_vars

\* a word of the wrong size sent to a session that is over: False, no error
C9_Witness ==
    /\ pc = "game"
    /\ fn = "wordle.Game"
    /\ is_over(self_guesses)
    /\ ret.exc = "none"
    /\ ret.val = FALSE
    /\ Len(args._guess) # WORD_SIZE

\* C10: a new Game is in progress with no guess; the history never holds
\* more than the guess limit; and once the Game is over, no guess call
\* changes the history, is_won or is_over.
C10_StateMachine ==
    /\ pc = "game" => (Len(self_guesses) = 0 /\ ~Over(fn, self_guesses, self_hints))
    /\ [](pc = "game" =>
              Len(self_guesses) <= (IF fn = "wordle.Game" THEN NUM_GUESSES ELSE MAX_GUESSES))
    /\ [][(pc = "game" /\ Over(fn, self_guesses, self_hints)) =>
              /\ HistoryUnchanged
              /\ Over(fn, self_guesses', self_hints')
              /\ Won(fn, self_guesses', self_hints') = Won(fn, self_guesses, self_hints)]_vars

\* a lost Game (six guesses, none of them the answer) that was called again
C10_Witness ==
    /\ pc = "game"
    /\ fn = "wordle.Game"
    /\ Len(self_guesses) = NUM_GUESSES
    /\ ~is_won(self_guesses)
    /\ ret.exc = "none"
    /\ ret.val = FALSE

(***************************************************************************)
(* wordle.Word.get_probability_map and wordle_fast.get_prob_and_iv         *)
(***************************************************************************)
\* "for answer in possible_words": the count of each hint
RECURSIVE count_hints(_, _, _, _)
count_hints(word, possible_words, i, prob_map) ==
    IF i > Len(possible_words) THEN prob_map
    ELSE LET guess_str == _guess_mask(upper(word), upper(possible_words[i]))
         IN  count_hints(word, possible_words, i + 1,
                 dict_set(prob_map, guess_str, dict_get(prob_map, guess_str, 0) + 1))

\* a probability is kept as the fraction num / den that the source divides
Fraction(num, den) == [num |-> num, den |-> den]

\* a map that divides by the number of buckets instead of len(possible_words)
get_probability_map_per_bucket(word, possible_words) ==
    LET prob_map == count_hints(word, possible_words, 1, EmptyDict)
    IN  [guess \in DOMAIN prob_map |->
            Fraction(prob_map[guess], Cardinality(DOMAIN prob_map))]

get_probability_map(word, possible_words) ==
    LET prob_map == count_hints(word, possible_words, 1, EmptyDict)
    IN  [guess \in DOMAIN prob_map |-> Fraction(prob_map[guess], Len(possible_words))]

RECURSIVE fast_count_hints(_, _, _, _)
fast_count_hints(guess, possible_words, i, freq_map) ==
    IF i > Len(possible_words) THEN freq_map
    ELSE LET hint == get_hint_from_guess(guess, possible_words[i])
         IN  fast_count_hints(guess, possible_words, i + 1,
                 dict_set(freq_map, hint, dict_get(freq_map, hint, 0) + 1))

\* get_information_value(prob) = log2(1 / prob), kept as the argument 1 / prob
get_information_value(prob) == [log2 |-> Fraction(prob.den, prob.num)]

get_prob_and_iv(guess, possible_words) ==
    LET freq_map == fast_count_hints(guess, possible_words, 1, EmptyDict)
    IN  [hint \in DOMAIN freq_map |->
            [p |-> Fraction(freq_map[hint], Len(possible_words)),
             I |-> get_information_value(Fraction(freq_map[hint], Len(possible_words)))]]

(***************************************************************************)
(* Calls of the probability maps                                           *)
(***************************************************************************)
\* the longest list of possible answers a call is given
MaxAnswers == 3

\* the words the possible answers are drawn from
AnswerPool ==
    {custom_list[1], custom_list[2], custom_list[3],
     upper(uk_txt[1]), upper(uk_txt[2]), upper(uk_txt[3])}

AnswerLists == UNION {[1..n -> AnswerPool] : n \in 0..MaxAnswers}

InitProb ==
    /\ fn \in {"get_probability_map", "get_prob_and_iv"}
    /\ pc = "call"
    /\ args \in [word : TestWords \cup AnswerPool, possible_words : AnswerLists]
    /\ ret = NoCall
    /\ self_answer = <<>>
    /\ self_word_list = <<>>
    /\ self_guesses = <<>>
    /\ self_hints = <<>>
    /\ self_games = <<>>
    /\ NoWorkers

Call_get_probability_map ==
    /\ fn = "get_probability_map"
    /\ pc = "call"
    /\ ret' = Returned(get_probability_map(args.word, args.possible_words))
    /\ pc' = "done"
    /\ UNCHANGED <<fn, args, game_vars>>
    /\ UNCHANGED par_vars

Call_get_prob_and_iv ==
    /\ fn = "get_prob_and_iv"
    /\ pc = "call"
    /\ ret' = Returned(LET iv_map == get_prob_and_iv(args.word, args.possible_words)
                       IN  [hint \in DOMAIN iv_map |-> iv_map[hint].p])
    /\ pc' = "done"
    /\ UNCHANGED <<fn, args, game_vars>>
    /\ UNCHANGED par_vars

NextProb == Call_get_probability_map \/ Call_get_prob_and_iv

SpecProb == InitProb /\ [][NextProb]_vars

\* the hint of the call's guess against one possible answer
BucketOf(possible_answer) ==
    IF fn = "get_probability_map"
        THEN _guess_mask(upper(args.word), upper(possible_answer))
        ELSE get_hint_from_guess(args.word, possible_answer)

RECURSIVE SumNum(_, _)
SumNum(map, keys) ==
    IF keys = {} THEN 0
    ELSE LET k == CHOOSE x \in keys : TRUE
         IN  map[k].num + SumNum(map, keys \ {k})

\* C7: for a non-empty list of possible answers, every answer's hint is a
\* bucket of the map, each bucket counts the answers with that hint, the
\* counts sum to |A|, and the probabilities count / |A| sum to 1.
C7_Normalised ==
    (pc = "done" /\ Len(args.possible_words) > 0) =>
        LET A == args.possible_words
            map == ret.val
        IN  /\ \A i \in DOMAIN A : BucketOf(A[i]) \in DOMAIN map
            /\ \A h \in DOMAIN map :
                   /\ map[h].num = Cardinality({i \in DOMAIN A : BucketOf(A[i]) = h})
                   /\ map[h].num >= 1
                   /\ map[h].den = Len(A)
            /\ SumNum(map, DOMAIN map) = Len(A)

\* three possible answers in two buckets
C7_Witness ==
    /\ pc = "done"
    /\ Len(args.possible_words) = 3
    /\ Cardinality(DOMAIN ret.val) = 2
    /\ Cardinality(Range(args.possible_words)) = 3

(***************************************************************************)
(* Calls of the filters: a word list and a constraint set are drawn at     *)
(* Init, the filter runs, and its output is filtered again.                *)
(***************************************************************************)
\* the word lists: the runs of consecutive words of a list, the empty one too
FilterPool == SubSeq(custom_list, 1, 3)

FilterLists ==
    {SubSeq(FilterPool, i, j) : i \in 1..(Len(FilterPool) + 1), j \in 0..Len(FilterPool)}

\* the constraint sets: at most one CORRECT pair, at most one MISPLACED pair,
\* any set of absent letters, at most one cap
Positions == 0..(WORD_SIZE - 1)
PairSets == {{}} \cup {{<<l, pos>>} : l \in Letters, pos \in Positions}
CapMaps == {EmptyDict} \cup {[k \in {l} |-> cap] : l \in Letters, cap \in 1..2}

ConstraintSets ==
    [correct : PairSets, wrong_position : PairSets,
     not_in_word : SUBSET Letters, max_occurrences : CapMaps]

\* a drawn constraint set in the shape each revision's filter takes
filter_once(revision, info, word_list) ==
    IF revision = "filter_words_from_info"
        THEN filter_words_from_info(
                 {Letter(c[1], c[2], "CORRECT") : c \in info.correct},
                 {Letter(c[1], c[2], "POSITION") : c \in info.wrong_position},
                 info.not_in_word, info.max_occurrences, word_list)
        ELSE fast_filter_words_from_info(
                 word_list,
                 [pos \in {c[2] : c \in info.correct} |->
                     (CHOOSE c \in info.correct : c[2] = pos)[1]],
                 info.wrong_position, info.not_in_word, info.max_occurrences)

InitFilter ==
    /\ fn \in {"filter_words_from_info", "wordle_fast.filter_words_from_info"}
    /\ pc = "call"
    /\ args \in [info : ConstraintSets, word_list : FilterLists]
    /\ ret = NoCall
    /\ self_answer = <<>>
    /\ self_word_list = <<>>
    /\ self_guesses = <<>>
    /\ self_hints = <<>>
    /\ self_games = <<>>
    /\ NoWorkers

\* the filter runs on the drawn list
Call_filter ==
    /\ pc = "call"
    /\ ret' = Returned(filter_once(fn, args.info, args.word_list))
    /\ pc' = "once"
    /\ UNCHANGED <<fn, args, game_vars>>
    /\ UNCHANGED par_vars

\* the output is filtered again with the same constraint set
Call_filter_again ==
    /\ pc = "once"
    /\ args' = [args EXCEPT !.word_list = ret.val]
    /\ ret' = Returned(filter_once(fn, args.info, ret.val))
    /\ pc' = "done"
    /\ UNCHANGED <<fn, game_vars>>
    /\ UNCHANGED par_vars

NextFilter == Call_filter \/ Call_filter_again

SpecFilter == InitFilter /\ [][NextFilter]_vars

\* C6: filtering the output of the filter again with the same constraint set
\* returns the identical list (after the second call, args.word_list is the
\* first output and ret.val the second).
C6_Idempotent ==
    pc = "done" => ret.val = args.word_list

\* the same for the wordle_fast filter alone, which has no default list
C6_FastIdempotent ==
    (pc = "done" /\ fn = "wordle_fast.filter_words_from_info") =>
        ret.val = args.word_list

(***************************************************************************)
(* C11: the contract of the filter                                         *)
(***************************************************************************)
\* the letters a constraint set credits to the answer
CreditedLetters(info) ==
    {c[1] : c \in info.correct} \cup {p[1] : p \in info.wrong_position}

\* word W passes every clause of the constraint set
Satisfies(W, info) ==
    /\ \A c \in info.correct : W[c[2] + 1] = c[1]
    /\ \A p \in info.wrong_position : p[1] \in Range(W) /\ W[p[2] + 1] # p[1]
    /\ \A n \in info.not_in_word : n \notin CreditedLetters(info) => n \notin Range(W)
    /\ \A l \in DOMAIN info.max_occurrences : count(W, l) <= info.max_occurrences[l]

\* the words of a list that pass, in the order of the list
Passing(list, info) ==
    LET ok(entry) == Satisfies(upper(entry), info) IN SelectSeq(list, ok)

\* C11: the filter returns exactly the words of its input list that pass every
\* clause of the constraint set (correct, wrong_position, not_in_word with the
\* credited-letter exemption, max_occurrences), in their original order.
C11_Contract ==
    pc \in {"once", "done"} => ret.val = Passing(args.word_list, args.info)

\* the same contract for wordle_fast.filter_words_from_info alone
C11_FastContract ==
    (pc \in {"once", "done"} /\ fn = "wordle_fast.filter_words_from_info") =>
        ret.val = Passing(args.word_list, args.info)

\* the same contract for wordle.filter_words_from_info on a non-empty list
C11_NonEmptyContract ==
    (pc \in {"once", "done"} /\ fn = "filter_words_from_info"
        /\ args.word_list # <<>>) =>
        ret.val = Passing(args.word_list, args.info)

\* a call on a non-empty list that drops some word and keeps another
C11_Kept ==
    /\ pc = "once"
    /\ Len(args.word_list) = 3
    /\ Len(ret.val) = 2
    /\ args.info.not_in_word # {}
    /\ args.info.not_in_word \subseteq CreditedLetters(args.info)

(***************************************************************************)
(* utils.multi_process and utils._batch_wrap: the parallel maps            *)
(*                                                                         *)
(* The caller starts the workers, puts (item, index) pairs on a FIFO       *)
(* queue, waits, and assembles the result from the shared output dict.     *)
(* Each worker takes a pair, applies the function and stores the result    *)
(* under the index.  Workers and caller interleave freely.                 *)
(***************************************************************************)
\* bounds of the parallel maps
MaxItem == 2
MaxInput == 3
MaxProcs == 2

\* the function being mapped: a sample callable that raises on item 0
\* (ZeroDivisionError) and returns a value on every other item
raises(item) == item = 0
func(item) == <<"ok", 12 \div item>>

\* zip_with / zip_output: a sample key function
zip_with(item) == <<"key", item>>

\* output[index] = value on a dict that keeps insertion order
dict_put(d, k, v) ==
    IF \E i \in DOMAIN d : d[i].k = k
        THEN [i \in DOMAIN d |-> IF d[i].k = k THEN [k |-> k, v |-> v] ELSE d[i]]
        ELSE Append(d, [k |-> k, v |-> v])

dict_keys(d) == {d[i].k : i \in DOMAIN d}

\* [output[k] for k in the dict's own (insertion) order]
values_unsorted(d) == [i \in DOMAIN d |-> d[i].v]

\* [output[k] for k in sorted(output.keys())]
values_sorted_by_key(d) ==
    LET keys == dict_keys(d)
        nth(i) == CHOOSE k \in keys : Cardinality({j \in keys : j < k}) = i - 1
    IN  [i \in 1..Cardinality(keys) |->
            d[CHOOSE j \in DOMAIN d : d[j].k = nth(i)].v]

\* dict(zip(keys, values)): zip stops at the shorter, a later pair overwrites
dict_zip(keys, values) ==
    LET n == IF Len(keys) < Len(values) THEN Len(keys) ELSE Len(values)
        last(k) == CHOOSE i \in 1..n :
                       /\ keys[i] = k
                       /\ \A j \in 1..n : keys[j] = k => j <= i
    IN  [k \in {keys[i] : i \in 1..n} |-> values[last(k)]]

\* an assembly that reads the output in completion order, without the sort
assemble_unsorted(input_list, d, zip) ==
    LET sorted == values_unsorted(d)
    IN  IF zip
            THEN dict_zip([i \in DOMAIN input_list |-> zip_with(input_list[i])], sorted)
            ELSE sorted

\* the end of both maps: sort the output by key, then zip with the keys
assemble(input_list, d, zip) ==
    LET sorted == values_sorted_by_key(d)
    IN  IF zip
            THEN dict_zip([i \in DOMAIN input_list |-> zip_with(input_list[i])], sorted)
            ELSE sorted

\* a worker: "get" waits on the queue, "run" holds a pair, "exit" has read the
\* end signal, "dead" was ended by an exception
Worker(st, item, index) == [st |-> st, item |-> item, index |-> index]
IdleWorker == Worker("get", 0, -1)

InputLists == UNION {[1..n -> 0..MaxItem] : n \in 0..MaxInput}

InitPar ==
    /\ fn \in {"multi_process", "_batch_wrap"}
    /\ args \in {a \in [input_list : InputLists, num : 1..MaxProcs,
                        zip : BOOLEAN, raise_exception : BOOLEAN] :
                    fn = "multi_process" => ~a.raise_exception}
    /\ pc = "start"
    /\ ret = NoCall
    /\ self_answer = <<>>
    /\ self_word_list = <<>>
    /\ self_guesses = <<>>
    /\ self_hints = <<>>
    /\ self_games = <<>>
    /\ NoWorkers

\* the caller starts the workers; _batch_wrap returns None on an empty input
\* and starts no more threads than there are items
Par_start ==
    /\ pc = "start"
    /\ IF fn = "_batch_wrap" /\ args.input_list = <<>>
           THEN /\ ret' = Returned(None)
                /\ pc' = "done"
                /\ UNCHANGED processes
           ELSE /\ processes' =
                       [w \in 1..(IF fn = "_batch_wrap" /\ args.num > Len(args.input_list)
                                      THEN Len(args.input_list) ELSE args.num)
                           |-> IdleWorker]
                /\ pc' = "put"
                /\ UNCHANGED ret
    /\ UNCHANGED <<fn, args, game_vars, main_queue, output, unfinished, put_count>>

\* the caller puts the next (item, index) pair
Par_put ==
    /\ pc = "put"
    /\ put_count < Len(args.input_list)
    /\ main_queue' = Append(main_queue, <<args.input_list[put_count + 1], put_count>>)
    /\ put_count' = put_count + 1
    /\ unfinished' = IF fn = "_batch_wrap" THEN unfinished + 1 ELSE unfinished
    /\ UNCHANGED <<fn, args, ret, pc, game_vars, output, processes>>

\* a caller that sends a single end signal, whatever the number of processes
Par_all_put_one_signal ==
    /\ pc = "put"
    /\ put_count = Len(args.input_list)
    /\ main_queue' =
           IF fn = "multi_process" THEN Append(main_queue, <<0, -1>>) ELSE main_queue
    /\ pc' = "join"
    /\ UNCHANGED <<fn, args, ret, game_vars, output, processes, unfinished, put_count>>

\* all pairs are put: multi_process sends one end signal per process
Par_all_put ==
    /\ pc = "put"
    /\ put_count = Len(args.input_list)
    /\ main_queue' =
           IF fn = "multi_process"
               THEN main_queue \o [w \in 1..args.num |-> <<0, -1>>]
               ELSE main_queue
    /\ pc' = "join"
    /\ UNCHANGED <<fn, args, ret, game_vars, output, processes, unfinished, put_count>>

\* the caller waits (p.join() for every process, q.join() for the threads)
\* and then assembles and returns the result
Par_join ==
    /\ pc = "join"
    /\ IF fn = "multi_process"
           THEN \A w \in DOMAIN processes : processes[w].st \in {"exit", "dead"}
           ELSE unfinished = 0
    /\ ret' = Returned(assemble(args.input_list, output, args.zip))
    /\ pc' = "done"
    /\ UNCHANGED <<fn, args, game_vars, par_vars>>

\* a worker takes the pair at the head of the queue
Worker_get(w) ==
    /\ processes[w].st = "get"
    /\ main_queue # <<>>
    /\ LET head == Head(main_queue)
       IN  processes' =
               [processes EXCEPT ![w] =
                   IF head[2] = -1 THEN Worker("exit", 0, -1)
                                   ELSE Worker("run", head[1], head[2])]
    /\ main_queue' = Tail(main_queue)
    /\ UNCHANGED <<fn, args, ret, pc, game_vars, output, unfinished, put_count>>

\* a worker applies the function to its pair.  multi_process.worker: the
\* exception is logged and raised, which ends the worker process.
\* _batch_wrap._worker: the exception is logged, then raised (which ends the
\* thread) under raise_exception, else None is stored; task_done() in any case.
Worker_run(w) ==
    /\ processes[w].st = "run"
    /\ LET item == processes[w].item
           index == processes[w].index
       IN  IF ~raises(item)
               THEN /\ output' = dict_put(output, index, func(item))
                    /\ processes' = [processes EXCEPT ![w] = IdleWorker]
               ELSE IF fn = "multi_process" \/ args.raise_exception
                   THEN /\ processes' = [processes EXCEPT ![w] = Worker("dead", item, index)]
                        /\ UNCHANGED output
                   ELSE /\ output' = dict_put(output, index, None)
                        /\ processes' = [processes EXCEPT ![w] = IdleWorker]
    /\ unfinished' = IF fn = "_batch_wrap" THEN unfinished - 1 ELSE unfinished
    /\ UNCHANGED <<fn, args, ret, pc, game_vars, main_queue, put_count>>

NextPar ==
    \/ Par_start
    \/ Par_put
    \/ Par_all_put
    \/ Par_join
    \/ \E w \in DOMAIN processes : Worker_get(w)
    \/ \E w \in DOMAIN processes : Worker_run(w)

SpecPar == InitPar /\ [][NextPar]_vars

\* what the map owes for input item number i (from 1)
OwnResult(i) ==
    IF raises(args.input_list[i]) THEN None ELSE func(args.input_list[i])

\* the returned value holds, for every input item, the given value at the
\* item's own index (or under the item's own key when zipped)
Aligned(val, owed(_)) ==
    IF args.zip
        THEN /\ DOMAIN val = {zip_with(args.input_list[i]) : i \in DOMAIN args.input_list}
             /\ \A i \in DOMAIN args.input_list :
                    val[zip_with(args.input_list[i])] = owed(i)
        ELSE /\ DOMAIN val = DOMAIN args.input_list
             /\ \A i \in DOMAIN args.input_list : val[i] = owed(i)

\* C12: when the function returns on every item, the value returned by
\* multi_process and by _batch_wrap has at index i the function's result on
\* input_list[i] (under zip, each key holds the result of its own item),
\* whatever the interleaving and completion order of the workers.
C12_Ordering ==
    (pc = "done" /\ args.input_list # <<>>
        /\ \A i \in DOMAIN args.input_list : ~raises(args.input_list[i])) =>
        Aligned(ret.val, OwnResult)

\* a finished run whose results completed out of submission order
C12_Witness ==
    /\ pc = "done"
    /\ Len(args.input_list) = MaxInput
    /\ \A i \in DOMAIN args.input_list : ~raises(args.input_list[i])
    /\ \E i, j \in DOMAIN output : i < j /\ output[i].k > output[j].k
    /\ \E i, j \in DOMAIN args.input_list : args.input_list[i] # args.input_list[j]
    /\ Aligned(ret.val, OwnResult)

\* C13: when the function raises on an item, the map either raises to its
\* caller or returns with None in that item's slot and every other item's own
\* result in its own slot; no slot is dropped and no result is shifted.
C13_FailurePolicy ==
    (pc = "done" /\ args.input_list # <<>>) =>
        \/ ret.exc # "none"
        \/ Aligned(ret.val, OwnResult)

\* the policy holds for _batch_wrap called without raise_exception
C13_NullPolicy ==
    (pc = "done" /\ args.input_list # <<>> /\ fn = "_batch_wrap"
        /\ ~args.raise_exception) =>
        Aligned(ret.val, OwnResult)

\* no run of either map ends by raising to the caller
C13_NeverRaises ==
    pc = "done" /\ fn \in {"multi_process", "_batch_wrap"} => ret.exc = "none"

(***************************************************************************)
(* Entropy and the entropy ranking                                         *)
(*                                                                         *)
(* An entropy sum(p * I) over the hint buckets of one guess, with          *)
(* p = c / N and I = log(a / b), is kept exactly as log(arg) / den with    *)
(* den = N and arg the product of (a / b)^c.  The entropies of one ranking *)
(* share N, so they are ordered as their args are.                         *)
(***************************************************************************)
RECURSIVE Pow(_, _)
Pow(b, e) == IF e = 0 THEN 1 ELSE b * Pow(b, e - 1)

RECURSIVE SumTerms(_, _, _)
\* entropy += item['p'] * item['I'] over the items of the map
SumTerms(iv_map, todo, acc) ==
    IF todo = {} THEN acc
    ELSE LET hint == CHOOSE h \in todo : TRUE
             item == iv_map[hint]
         IN  SumTerms(iv_map, todo \ {hint},
                 [den |-> item.p.den,
                  arg |-> Fraction(acc.arg.num * Pow(item.I.num, item.p.num),
                                   acc.arg.den * Pow(item.I.den, item.p.num))])

\* entropy = 0 before the loop
ZeroEntropy == [den |-> 0, arg |-> Fraction(1, 1)]

\* wordle_fast.compute_entropy
compute_entropy(guess, possible_words) ==
    LET iv_map == get_prob_and_iv(guess, possible_words)
        items == [h \in DOMAIN iv_map |-> [p |-> iv_map[h].p, I |-> iv_map[h].I.log2]]
    IN  SumTerms(items, DOMAIN items, ZeroEntropy)

\* H1 < H2 and H1 = H2 for two entropies of one ranking
H_less(h1, h2) == h1.arg.num * h2.arg.den < h2.arg.num * h1.arg.den
H_equal(h1, h2) == h1.arg.num * h2.arg.den = h2.arg.num * h1.arg.den

\* a dict filled by a loop over a list: the keys in order of first insertion
insertion_order(list) ==
    LET first(i) == \A j \in 1..(i - 1) : list[j] # list[i]
        n == Cardinality({i \in DOMAIN list : first(i)})
        nth(k) == CHOOSE i \in DOMAIN list :
                      first(i) /\ Cardinality({j \in 1..i : first(j)}) = k
    IN  [k \in 1..n |-> list[nth(k)]]

\* a sort by ascending entropy, reversed afterwards: equal entropies change places
sorted_ascending_then_reversed(items) ==
    LET pos(i) == 1 + Cardinality({j \in DOMAIN items : H_less(items[j].H, items[i].H)})
                    + Cardinality({j \in 1..(i - 1) : H_equal(items[j].H, items[i].H)})
        at(p) == CHOOSE i \in DOMAIN items : pos(i) = p
    IN  [p \in DOMAIN items |-> items[at(Len(items) + 1 - p)]]

\* sorted(items, key=H, reverse=True), and sorted(items, key=-H): Python's
\* sort is stable, under reverse=True too, so equal entropies keep their order
sorted_by_entropy_desc(items) ==
    LET pos(i) == 1 + Cardinality({j \in DOMAIN items : H_less(items[i].H, items[j].H)})
                    + Cardinality({j \in 1..(i - 1) : H_equal(items[j].H, items[i].H)})
        at(p) == CHOOSE i \in DOMAIN items : pos(i) = p
    IN  [p \in DOMAIN items |-> items[at(p)]]

\* wordle_fast.sort_by_entropy: the words of the map, highest entropy first
fast_sort_by_entropy(e_map) ==
    LET e_sorted == sorted_by_entropy_desc(e_map)
    IN  [i \in DOMAIN e_sorted |-> e_sorted[i].word]

\* wordle_fast.compute_many_entropies
compute_many_entropies(guesses, possible_words) ==
    LET keys == insertion_order(guesses)
        e_map == [i \in DOMAIN keys |->
                     [word |-> keys[i], H |-> compute_entropy(keys[i], possible_words)]]
    IN  fast_sort_by_entropy(e_map)

\* wordle._get_information_value(num_possible, num_total) =
\* -log(num_possible / num_total), kept as the fraction num_total / num_possible
_get_information_value(num_possible, num_total) == Fraction(num_total, num_possible)

\* Game.information_value after the single guess of Word.get_information_map
one_guess_information_value(word, answer, possible_words) ==
    LET played == guess_outcome(<<>>, possible_words, answer, word, TRUE).guesses
    IN  _get_information_value(Len(Game_possible_answers(played, possible_words)),
                               Len(possible_words))

\* Word.get_information_map: for every hint string, the information value of
\* the game played against the first answer that gives it
get_information_map(word, possible_words) ==
    LET mask(i) == _guess_mask(upper(word), upper(possible_words[i]))
        firstOf(s) == CHOOSE i \in DOMAIN possible_words :
                          mask(i) = s /\ \A j \in 1..(i - 1) : mask(j) # s
    IN  [s \in {mask(i) : i \in DOMAIN possible_words} |->
            one_guess_information_value(word, possible_words[firstOf(s)], possible_words)]

\* wordle.compute_entropy for one input word: merge_guess_maps of the two
\* maps, then calculate_entropy
wordle_entropy(word, possible_words) ==
    LET probs == get_probability_map(word, possible_words)
        info == get_information_map(word, possible_words)
        pi_map == [s \in DOMAIN info \cap DOMAIN probs |-> [p |-> probs[s], I |-> info[s]]]
    IN  SumTerms(pi_map, DOMAIN pi_map, ZeroEntropy)

\* wordle.compute_entropy: the entropy map over the input list (the possible
\* words themselves when no input list is given), keyed by str(word)
wordle_compute_entropy(possible_words, input_list) ==
    LET inputs == IF input_list = <<>> THEN possible_words ELSE input_list
        keys == insertion_order([i \in DOMAIN inputs |-> upper(inputs[i])])
    IN  [i \in DOMAIN keys |->
            [word |-> keys[i], H |-> wordle_entropy(keys[i], possible_words)]]

\* wordle.sort_by_entropy
sort_by_entropy(entropy_map) ==
    LET word_list == sorted_by_entropy_desc(entropy_map)
    IN  [i \in DOMAIN word_list |-> word_list[i].word]

(***************************************************************************)
(* Calls of the rankings                                                   *)
(***************************************************************************)
\* the longest guess universe of a ranking
MaxUniverse == 3

RankPool == {custom_list[i] : i \in 1..4}

\* lists without repetition, of lengths lo to hi
DistinctLists(S, lo, hi) ==
    {s \in UNION {[1..n -> S] : n \in lo..hi} :
        \A i, j \in DOMAIN s : i # j => s[i] # s[j]}

InitRank ==
    /\ fn \in {"compute_many_entropies", "sort_by_entropy"}
    /\ pc = "call"
    /\ args \in [guesses : DistinctLists(RankPool, 1, MaxUniverse),
                 possible_words : DistinctLists(RankPool, 2, MaxAnswers)]
    /\ ret = NoCall
    /\ self_answer = <<>>
    /\ self_word_list = <<>>
    /\ self_guesses = <<>>
    /\ self_hints = <<>>
    /\ self_games = <<>>
    /\ NoWorkers

Call_compute_many_entropies ==
    /\ pc = "call"
    /\ fn = "compute_many_entropies"
    /\ ret' = Returned(compute_many_entropies(args.guesses, args.possible_words))
    /\ pc' = "done"
    /\ UNCHANGED <<fn, args, game_vars>>
    /\ UNCHANGED par_vars

Call_sort_by_entropy ==
    /\ pc = "call"
    /\ fn = "sort_by_entropy"
    /\ ret' = Returned(sort_by_entropy(
                  wordle_compute_entropy(args.possible_words, args.guesses)))
    /\ pc' = "done"
    /\ UNCHANGED <<fn, args, game_vars>>
    /\ UNCHANGED par_vars

NextRank == Call_compute_many_entropies \/ Call_sort_by_entropy

SpecRank == InitRank /\ [][NextRank]_vars

\* the entropy the called revision gives a candidate
EntropyOf(word) ==
    IF fn = "compute_many_entropies"
        THEN compute_entropy(word, args.possible_words)
        ELSE wordle_entropy(word, args.possible_words)

\* where a candidate first stands in the guess universe
PlaceOf(word) ==
    CHOOSE i \in DOMAIN args.guesses :
        /\ upper(args.guesses[i]) = word
        /\ \A j \in 1..(i - 1) : upper(args.guesses[j]) # word

\* C14: the first word of the entropy ranking has an entropy not less than
\* that of any candidate of the guess universe, and among the candidates of
\* that maximal entropy it is the one standing first in the universe.
C14_TopRanked ==
    pc = "done" =>
        LET top == ret.val[1]
            Htop == EntropyOf(top)
        IN  /\ \E i \in DOMAIN args.guesses : upper(args.guesses[i]) = top
            /\ \A i \in DOMAIN args.guesses :
                   LET g == upper(args.guesses[i])
                   IN  /\ ~H_less(Htop, EntropyOf(g))
                       /\ H_equal(Htop, EntropyOf(g)) => PlaceOf(top) <= PlaceOf(g)

\* a ranking whose winner ties with a later candidate and beats an earlier one
C14_Witness ==
    /\ pc = "done"
    /\ Len(args.guesses) = MaxUniverse
    /\ ret.val[1] = upper(args.guesses[2])
    /\ H_less(EntropyOf(upper(args.guesses[1])), EntropyOf(ret.val[1]))
    /\ H_equal(EntropyOf(upper(args.guesses[3])), EntropyOf(ret.val[1]))

(***************************************************************************)
(* wordle_fast.get_best_move                                               *)
(***************************************************************************)
IV_THRESHOLD == 9

\* word_lists/answers.txt, as the lines of the file
answers_txt == << uk_txt[1], uk_txt[3] >>

\* wordle_fast.load_answers
load_answers == [i \in DOMAIN answers_txt |-> upper(answers_txt[i])]

\* log2(arg) < threshold, for a whole-number threshold
iv_below(iv, threshold) == iv.log2.num < Pow(2, threshold) * iv.log2.den

\* the words of a list that are in another, in the order of the first
restricted_to(possible_answers, answer_list) ==
    LET listed(w) == w \in Range(answer_list) IN SelectSeq(possible_answers, listed)

\* a move that ranks the whole word list whatever the information value
fast_get_best_move_always_explore(possible_answers, word_list, answer_list, iv_threshold) ==
    LET words == IF word_list = <<>> THEN fast_load_words ELSE word_list
        answers == IF answer_list = <<>> THEN load_answers ELSE answer_list
        possible == restricted_to(possible_answers, answers)
    IN  IF Len(possible) = 0
            THEN Raised("ZeroDivisionError")
            ELSE Returned(compute_many_entropies(words, possible)[1])

\* get_best_move: with no possible answer left, prob is 0.0 and the 1 / prob
\* of get_information_value raises ZeroDivisionError
fast_get_best_move(possible_answers, word_list, answer_list, iv_threshold) ==
    LET words == IF word_list = <<>> THEN fast_load_words ELSE word_list
        answers == IF answer_list = <<>> THEN load_answers ELSE answer_list
        possible == restricted_to(possible_answers, answers)
        prob == Fraction(Len(possible), Len(answers))
    IN  IF prob.num = 0
            THEN Raised("ZeroDivisionError")
            ELSE LET iv == get_information_value(prob)
                     best_moves ==
                         IF iv_below(iv, iv_threshold)
                             THEN compute_many_entropies(words, possible)
                             ELSE compute_many_entropies(possible, possible)
                 IN  Returned(best_moves[1])

(***************************************************************************)
(* wordle.get_best_move                                                    *)
(***************************************************************************)
\* len(set(w.entropy for w in best_words[:5]))
unique_entropies(items) ==
    LET top == 1..(IF Len(items) < 5 THEN Len(items) ELSE 5)
    IN  Cardinality({i \in top : \A j \in 1..(i - 1) : ~H_equal(items[j].H, items[i].H)})

\* best_words[0]: IndexError on an empty ranking
first_of(best_words) ==
    IF best_words = <<>> THEN Raised("IndexError") ELSE Returned(best_words[1])

\* get_best_move(word_list, explore, must_answer, all_words), word_list being
\* the possible answers
get_best_move(word_list, explore, must_answer, all_words) ==
    LET everything == IF all_words = <<>> THEN load_words ELSE all_words
        explored == sort_by_entropy(wordle_compute_entropy(word_list, everything))
        e_map == wordle_compute_entropy(word_list, <<>>)
    IN  IF explore
            THEN first_of(explored)
        ELSE IF unique_entropies(sorted_by_entropy_desc(e_map)) < 3
                /\ 3 < Len(word_list) /\ ~must_answer
            THEN first_of(explored)
        ELSE first_of(sort_by_entropy(e_map))

(***************************************************************************)
(* Calls of get_best_move                                                  *)
(***************************************************************************)
\* the thresholds a call is given: small ones and the default
IvThresholds == {0, 1, 2, IV_THRESHOLD}

MovePool == {custom_list[i] : i \in 1..6} \cup Range(fast_load_words)

InitMove ==
    /\ \/ /\ fn = "wordle_fast.get_best_move"
          /\ args \in [possible_answers : DistinctLists(MovePool, 0, MaxAnswers),
                       word_list : {<<>>, custom_list},
                       answer_list : {<<>>, SubSeq(custom_list, 1, 6)},
                       iv_threshold : IvThresholds]
       \/ /\ fn = "get_best_move"
          /\ args \in [word_list : DistinctLists({custom_list[i] : i \in 3..7}, 0, MaxAnswers + 1),
                       explore : BOOLEAN, must_answer : BOOLEAN,
                       all_words : {<<>>, custom_list}]
    /\ pc = "call"
    /\ ret = NoCall
    /\ self_answer = <<>>
    /\ self_word_list = <<>>
    /\ self_guesses = <<>>
    /\ self_hints = <<>>
    /\ self_games = <<>>
    /\ NoWorkers

Call_fast_get_best_move ==
    /\ pc = "call"
    /\ fn = "wordle_fast.get_best_move"
    /\ ret' = fast_get_best_move(args.possible_answers, args.word_list,
                                 args.answer_list, args.iv_threshold)
    /\ pc' = "done"
    /\ UNCHANGED <<fn, args, game_vars>>
    /\ UNCHANGED par_vars

Call_get_best_move ==
    /\ pc = "call"
    /\ fn = "get_best_move"
    /\ ret' = get_best_move(args.word_list, args.explore, args.must_answer, args.all_words)
    /\ pc' = "done"
    /\ UNCHANGED <<fn, args, game_vars>>
    /\ UNCHANGED par_vars

NextMove == Call_fast_get_best_move \/ Call_get_best_move

SpecMove == InitMove /\ [][NextMove]_vars

\* the lists a call of get_best_move works with
MoveWords == IF args.word_list = <<>> THEN fast_load_words ELSE args.word_list
MoveAnswers == IF args.answer_list = <<>> THEN load_answers ELSE args.answer_list
MoveP == {w \in Range(args.possible_answers) : w \in Range(MoveAnswers)}

\* |answer_list| / |P| < 2^iv_threshold
MoveExplores ==
    Len(MoveAnswers) < Pow(2, args.iv_threshold) * Cardinality(MoveP)

\* word is a top-entropy candidate of a set, against the possible answers P
TopAmong(word, candidates) ==
    LET P == restricted_to(args.possible_answers, MoveAnswers)
    IN  /\ word \in candidates
        /\ \A g \in candidates :
               ~H_less(compute_entropy(word, P), compute_entropy(g, P))

\* C15: with P the possible answers that are in the answer list and
\* iv = log2(|answer_list| / |P|): when iv < iv_threshold the returned word is
\* the top-ranked of the whole word list, and when iv >= iv_threshold it is
\* the top-ranked of P, hence a member of P.
C15_ExploreExploit ==
    (pc = "done" /\ fn = "wordle_fast.get_best_move" /\ MoveP # {}) =>
        /\ ret.exc = "none"
        /\ IF MoveExplores
               THEN TopAmong(ret.val, Range(MoveWords))
               ELSE TopAmong(ret.val, MoveP)

\* a call at or above the threshold that returns a member of P although a
\* word outside P has a higher entropy, next to states below the threshold
C15_Witness ==
    /\ pc = "done"
    /\ fn = "wordle_fast.get_best_move"
    /\ MoveP # {}
    /\ ~MoveExplores
    /\ args.iv_threshold > 0
    /\ ret.val \in MoveP
    /\ \E g \in Range(MoveWords) \ MoveP :
           H_less(compute_entropy(ret.val, restricted_to(args.possible_answers, MoveAnswers)),
                  compute_entropy(g, restricted_to(args.possible_answers, MoveAnswers)))

\* C17: with no possible answer left, get_best_move returns no word but ends
\* in an error, and that error is not a division by zero: the division by the
\* number of possible answers is guarded.
C17_EmptyGuarded ==
    (pc = "done" /\ fn = "wordle_fast.get_best_move" /\ MoveP = {}) =>
        ret.exc \notin {"none", "ZeroDivisionError"}

\* with no possible answer left, get_best_move returns no word
C17_NoWordReturned ==
    (pc = "done" /\ fn = "wordle_fast.get_best_move" /\ MoveP = {}) =>
        ret.exc # "none"

\* wordle.get_best_move on an empty list of possible answers returns no word
C17_WordleNoWordReturned ==
    (pc = "done" /\ fn = "get_best_move" /\ args.word_list = <<>>) =>
        ret.exc # "none"

(***************************************************************************)
(* bot_play of both revisions: a Game is built, the initial guesses are    *)
(* played, then get_best_move chooses every further guess until the game   *)
(* is over.                                                                *)
(***************************************************************************)
\* INITIAL_GUESSES of both revisions
INITIAL_GUESSES == << <<"C","R","A","N","E">> >>

RECURSIVE fast_play_initial(_, _, _, _, _)
\* wordle_fast.bot_play: for guess in initial_guesses: game.make_guess(guess)
fast_play_initial(guesses, hints, word_list, answer, todo) ==
    IF todo = <<>> THEN [ret |-> NoCall, guesses |-> guesses, hints |-> hints]
    ELSE LET out == make_guess_outcome(guesses, hints, word_list, answer, Head(todo))
         IN  IF out.ret.exc # "none" THEN out
             ELSE fast_play_initial(out.guesses, out.hints, word_list, answer, Tail(todo))

RECURSIVE play_initial(_, _, _, _)
\* wordle.bot_play: for guess in initial_guesses: game.guess(guess)
play_initial(guesses, word_list, answer, todo) ==
    IF todo = <<>> THEN [ret |-> NoCall, guesses |-> guesses]
    ELSE LET out == guess_outcome(guesses, word_list, answer, Head(todo), FALSE)
         IN  IF out.ret.exc # "none" THEN out
             ELSE play_initial(out.guesses, word_list, answer, Tail(todo))

\* -log(num_possible / num_total) < 6, e^6 being 403.428...; math.log raises
\* ValueError on 0
information_value_below_6(num_possible, num_total) ==
    num_total * 1000 < 403429 * num_possible

\* wordle.bot_play: the word of one turn of the loop
bot_move(guesses, word_list, filter_answers) ==
    LET possible_answers == Game_possible_answers(guesses, word_list)
        listed(w) == word_in(w, filter_answers)
        possible == IF filter_answers # <<>> THEN SelectSeq(possible_answers, listed)
                    ELSE possible_answers
        in_range == 2 <= Len(guesses) /\ Len(guesses) <= 4
    IN  IF in_range /\ Len(possible_answers) = 0
            THEN Raised("ValueError")
            ELSE get_best_move(possible,
                     in_range /\ information_value_below_6(Len(possible_answers),
                                                          Len(word_list)),
                     Len(guesses) = NUM_GUESSES - 1, <<>>)

\* a turn that lets get_best_move load the default word list instead of
\* passing the Game's
fast_bot_move_default_words(guesses, hints, word_list, answer_list) ==
    fast_get_best_move(Game_possible_words(guesses, hints, word_list),
                       <<>>, answer_list, IV_THRESHOLD)

\* wordle_fast.bot_play: the word of one turn of the loop
fast_bot_move(guesses, hints, word_list, answer_list) ==
    fast_get_best_move(Game_possible_words(guesses, hints, word_list),
                       word_list, answer_list, IV_THRESHOLD)

\* the initial_guesses arguments: none, or one word once or on all turns but the last
InitialGuessArgs(word_list) ==
    {<<>>} \cup {[i \in 1..n |-> w] : w \in Range(word_list), n \in {1, MAX_GUESSES - 1}}

InitBot ==
    /\ \/ /\ fn = "wordle_fast.bot_play"
          /\ \E word_list \in {<<>>, custom_list} :
                 /\ self_word_list = IF word_list = <<>> THEN fast_load_words ELSE word_list
                 /\ \E word \in Range(self_word_list) \cup {NonListWord},
                       answer_list \in {<<>>, SubSeq(custom_list, 1, 6)},
                       initial_guesses \in InitialGuessArgs(self_word_list) :
                        /\ args = [word |-> word, word_list |-> word_list,
                                   answer_list |-> answer_list,
                                   initial_guesses |-> initial_guesses]
                        /\ self_answer = upper(word)
       \/ /\ fn = "bot_play"
          /\ self_word_list = load_words
          /\ \E word \in Range(load_words) \cup {NonListWord, custom_list[1]},
                initial_guesses \in InitialGuessArgs(load_words),
                filter_answers \in {<<>>, SubSeq(load_words, 1, 2)} :
                 /\ args = [word |-> word, initial_guesses |-> initial_guesses,
                            filter_answers |-> filter_answers]
                 /\ self_answer = word
    /\ pc = "initial"
    /\ ret = NoCall
    /\ self_guesses = <<>>
    /\ self_hints = <<>>
    /\ self_games = <<>>
    /\ NoWorkers

\* the initial guesses are played; an error of a guess ends bot_play
Bot_initial ==
    /\ pc = "initial"
    /\ LET todo == IF args.initial_guesses = <<>> THEN INITIAL_GUESSES
                   ELSE args.initial_guesses
       IN  IF fn = "wordle_fast.bot_play"
               THEN LET out == fast_play_initial(<<>>, <<>>, self_word_list, self_answer, todo)
                    IN  /\ self_guesses' = out.guesses
                        /\ self_hints' = out.hints
                        /\ ret' = IF out.ret.exc \in {"none", "nocall"} THEN NoCall ELSE out.ret
                        /\ pc' = IF out.ret.exc \in {"none", "nocall"} THEN "loop" ELSE "done"
               ELSE LET out == play_initial(<<>>, self_word_list, self_answer, todo)
                    IN  /\ self_guesses' = out.guesses
                        /\ self_hints' = self_hints
                        /\ ret' = IF out.ret.exc \in {"none", "nocall"} THEN NoCall ELSE out.ret
                        /\ pc' = IF out.ret.exc \in {"none", "nocall"} THEN "loop" ELSE "done"
    /\ UNCHANGED <<fn, args, self_answer, self_word_list, self_games>>
    /\ UNCHANGED par_vars

\* the end of a turn: the chosen word was submitted with outcome out
bot_submitted(move, out, hints) ==
    [ret |-> IF out.ret.exc = "none" THEN move ELSE out.ret,
     pc |-> IF out.ret.exc = "none" THEN "loop" ELSE "done",
     guesses |-> out.guesses,
     hints |-> hints]

\* a turn of wordle_fast.bot_play once get_best_move has returned or raised:
\* game.make_guess(guess)
fast_bot_turn(move, guesses, hints, word_list, answer) ==
    IF move.exc # "none"
        THEN [ret |-> move, pc |-> "done", guesses |-> guesses, hints |-> hints]
        ELSE bot_submitted(move,
                 make_guess_outcome(guesses, hints, word_list, answer, move.val),
                 Append(hints, get_hint_from_guess(move.val, answer)))

\* a turn of wordle.bot_play once get_best_move has returned or raised:
\* game.guess(word)
bot_turn(move, guesses, hints, word_list, answer) ==
    IF move.exc # "none"
        THEN [ret |-> move, pc |-> "done", guesses |-> guesses, hints |-> hints]
        ELSE bot_submitted(move,
                 guess_outcome(guesses, word_list, answer, move.val, FALSE), hints)

\* one turn of the loop of wordle_fast.bot_play: get_best_move, then make_guess
Bot_fast_turn ==
    /\ pc = "loop"
    /\ fn = "wordle_fast.bot_play"
    /\ ~fast_is_over(self_guesses, self_hints)
    /\ \E turn \in {fast_bot_turn(
                        fast_bot_move(self_guesses, self_hints, self_word_list,
                            IF args.answer_list = <<>> THEN load_answers
                            ELSE args.answer_list),
                        self_guesses, self_hints, self_word_list, self_answer)} :
           /\ ret' = turn.ret
           /\ pc' = turn.pc
           /\ self_guesses' = turn.guesses
           /\ self_hints' = IF Len(turn.guesses) > Len(self_guesses)
                               THEN turn.hints ELSE self_hints
    /\ UNCHANGED <<fn, args, self_answer, self_word_list, self_games>>
    /\ UNCHANGED par_vars

\* one turn of the loop of wordle.bot_play: get_best_move, then guess
Bot_turn ==
    /\ pc = "loop"
    /\ fn = "bot_play"
    /\ ~is_over(self_guesses)
    /\ \E turn \in {bot_turn(
                        bot_move(self_guesses, self_word_list, args.filter_answers),
                        self_guesses, self_hints, self_word_list, self_answer)} :
           /\ ret' = turn.ret
           /\ pc' = turn.pc
           /\ self_guesses' = turn.guesses
    /\ UNCHANGED <<fn, args, self_answer, self_word_list, self_games, self_hints>>
    /\ UNCHANGED par_vars

\* the game is over: the score is returned (wordle.py: -1 unless won)
Bot_return ==
    /\ pc = "loop"
    /\ IF fn = "wordle_fast.bot_play"
           THEN /\ fast_is_over(self_guesses, self_hints)
                /\ ret' = Returned(<<"score", fast_score(self_guesses, self_hints)>>)
           ELSE /\ is_over(self_guesses)
                /\ ret' = Returned(<<"score", IF is_won(self_guesses)
                                                 THEN Len(self_guesses) ELSE -1>>)
    /\ pc' = "done"
    /\ UNCHANGED <<fn, args, game_vars>>
    /\ UNCHANGED par_vars

NextBot == Bot_initial \/ Bot_fast_turn \/ Bot_turn \/ Bot_return

SpecBot == InitBot /\ [][NextBot]_vars

\* the bot has just submitted the word in ret as the last allowed guess
BotLastGuess ==
    /\ pc = "loop"
    /\ ret.exc = "none"
    /\ Len(self_guesses) = (IF fn = "bot_play" THEN NUM_GUESSES ELSE MAX_GUESSES)

\* the possible-answers pool the bot had before that guess
PoolBefore ==
    IF fn = "bot_play"
        THEN Game_possible_answers(ButLast(self_guesses), self_word_list)
        ELSE Game_possible_words(ButLast(self_guesses), ButLast(self_hints), self_word_list)

\* C16: the word a bot submits as its last allowed guess (history length one
\* below the guess limit) is a member of the possible-answers pool it had then.
C16_LastGuessInPool ==
    BotLastGuess => word_in(ret.val, PoolBefore)

\* the same for wordle.bot_play alone, which passes must_answer on that turn
C16_WordleLastGuessInPool ==
    (BotLastGuess /\ fn = "bot_play") => word_in(ret.val, PoolBefore)

\* wordle.bot_play reaches its last allowed guess with a pool to choose from
C16_WordleLastGuess ==
    /\ BotLastGuess
    /\ fn = "bot_play"
    /\ Len(PoolBefore) >= 1

(***************************************************************************)
(* The web drivers: a history read from the page                           *)
(***************************************************************************)
\* The model enters at most MaxPage words on the page.
MaxPage == 2

\* GuessState.from_web
from_web(web_id) ==
    CASE web_id = "absent" -> "WRONG"
      [] web_id = "present" -> "POSITION"
      [] web_id = "correct" -> "CORRECT"

\* nyt_web_driver.GUESS_STATE
GUESS_STATE(web_id) ==
    CASE web_id = "absent" -> "WRONG"
      [] web_id = "present" -> "MISPLACED"
      [] web_id = "correct" -> "CORRECT"

\* the 'evaluation' attributes of the five tiles of a row, as the page gives
\* them: nothing ties them to the encoder or to one answer
PageEvaluations == [1..WORD_SIZE -> {"absent", "present", "correct"}]

\* the words typed on the page
PageWords == {lower(custom_list[2]), lower(custom_list[4])}

\* WordleWebDriver.get_guess for an evaluated row
get_guess(word, evaluation) ==
    [i \in 1..WORD_SIZE |-> Letter(word[i], i - 1, from_web(evaluation[i]))]

\* NYTWebDriver.get_guess for an evaluated row: <<guess, hint>>
nyt_get_guess(word, evaluation) ==
    <<upper(word), [i \in 1..WORD_SIZE |-> GUESS_STATE(evaluation[i])]>>

InitPage ==
    /\ fn \in {"WordleWebDriver", "NYTWebDriver"}
    /\ pc = "page"
    /\ args = <<>>
    /\ ret = NoCall
    /\ self_word_list = custom_list
    /\ self_answer = <<>>
    /\ self_guesses = <<>>
    /\ self_hints = <<>>
    /\ self_games = <<>>
    /\ NoWorkers

\* enter_word: the row has no evaluation (the word is not allowed) and
\* nothing is recorded, or the row read from the page is appended
enter_word ==
    /\ pc = "page"
    /\ Len(self_guesses) < MaxPage
    /\ \E word \in PageWords :
           \/ /\ ret' = Returned(FALSE)
              /\ UNCHANGED <<self_guesses, self_hints>>
           \/ \E evaluation \in PageEvaluations :
                  /\ ret' = Returned(TRUE)
                  /\ IF fn = "WordleWebDriver"
                         THEN /\ self_guesses' =
                                     Append(self_guesses, get_guess(word, evaluation))
                              /\ UNCHANGED self_hints
                         ELSE /\ self_guesses' =
                                     Append(self_guesses, nyt_get_guess(word, evaluation)[1])
                              /\ self_hints' =
                                     Append(self_hints, nyt_get_guess(word, evaluation)[2])
    /\ UNCHANGED <<fn, args, pc, self_answer, self_word_list, self_games>>
    /\ UNCHANGED par_vars

NextPage == enter_word

SpecPage == InitPage /\ [][NextPage]_vars

\* the revision a driver aggregates and filters with
PageRevision == IF fn = "WordleWebDriver" THEN "wordle.Game" ELSE "wordle_fast.Game"

\* the words the filter keeps for the first k pairs of the recorded history
KeptFor(k) ==
    Pool(PageRevision, SubSeq(self_guesses, 1, k), SubSeq(self_hints, 1, k),
         self_word_list)

\* C18: the constraint set is never relaxed: for every recorded history of
\* (guess, hint) pairs, whatever the hints, and the word list, the words
\* kept for the first k+1 pairs are among the words kept for the first k.
C18_NeverRelaxed ==
    pc = "page" =>
        \A k \in 0..(Len(self_guesses) - 1) :
            Range(KeptFor(k + 1)) \subseteq Range(KeptFor(k))

(***************************************************************************)
(* Caps derived by the guesses of a recorded history                       *)
(***************************************************************************)
\* the letter and the state of tile i of recorded guess n
TileLetter(n, i) ==
    IF fn = "WordleWebDriver" THEN self_guesses[n][i].guess ELSE self_guesses[n][i]

TileState(n, i) ==
    IF fn = "WordleWebDriver" THEN self_guesses[n][i].state ELSE self_hints[n][i]

\* how often recorded guess n marks letter CORRECT or misplaced
PageIncluded(n, letter) ==
    Cardinality({i \in 1..WORD_SIZE :
                    /\ TileLetter(n, i) = letter
                    /\ TileState(n, i) \in {"CORRECT", "POSITION", "MISPLACED"}})

\* the recorded guesses that derive a cap for letter: they credit it and mark
\* it WRONG as well
Capping(letter) ==
    {n \in DOMAIN self_guesses :
        /\ PageIncluded(n, letter) > 0
        /\ \E i \in 1..WORD_SIZE : TileLetter(n, i) = letter /\ TileState(n, i) = "WRONG"}

\* max_occurrences as aggregated from the recorded history
PageCaps ==
    IF fn = "WordleWebDriver"
        THEN _get_information_from_guesses(self_guesses).max_occurrences
        ELSE get_info_from_hints(self_guesses, self_hints).max_occurrences

SetMin(S) == CHOOSE x \in S : \A y \in S : x <= y
SetMax(S) == CHOOSE x \in S : \A y \in S : x >= y

\* C19: when several guesses of a history each derive a cap for the same
\* letter and the values differ, the aggregated max_occurrences entry for
\* the letter is the smallest of those values, whatever the order.
C19_TightestCap ==
    pc = "page" =>
        \A letter \in Letters :
            LET values == {PageIncluded(n, letter) : n \in Capping(letter)}
            IN  Cardinality(values) > 1 =>
                    /\ letter \in DOMAIN PageCaps
                    /\ PageCaps[letter] = SetMin(values)

\* what the aggregators do: the entry is the value of the last guess of the
\* history that derives a cap for the letter
C19_LastCapWins ==
    pc = "page" =>
        \A letter \in Letters :
            IF Capping(letter) = {}
                THEN letter \notin DOMAIN PageCaps
                ELSE /\ letter \in DOMAIN PageCaps
                     /\ PageCaps[letter] = PageIncluded(SetMax(Capping(letter)), letter)

\* two guesses derive different caps for a letter, the larger one last
C19_LooserLast ==
    /\ pc = "page"
    /\ \E letter \in Letters :
           /\ Cardinality(Capping(letter)) = 2
           /\ PageIncluded(1, letter) < PageIncluded(2, letter)

(***************************************************************************)
(* The pool against the encoder                                            *)
(***************************************************************************)
\* the word of recorded guess n of a session
RecordedWord(n) ==
    IF fn = "wordle.Game"
        THEN [i \in DOMAIN self_guesses[n] |-> self_guesses[n][i].guess]
        ELSE self_guesses[n]

\* encoding recorded guess n against W gives the recorded hint
EncodesTo(n, W) ==
    IF fn = "wordle.Game"
        THEN guess_states(RecordedWord(n), _guess_mask(RecordedWord(n), upper(W)))
                 = self_guesses[n]
        ELSE get_hint_from_guess(self_guesses[n], W) = self_hints[n]

\* C20: every word kept in the possible-answers pool of a session is
\* consistent with all known information: encoding each recorded guess
\* against it gives exactly the recorded hint; after one guess the pool is
\* the set of the words of the list whose hint for that guess is the
\* recorded one.
C20_OnlyConsistentKept ==
    pc = "game" =>
        LET pool == Pool(fn, self_guesses, self_hints, self_word_list)
        IN  /\ \A W \in Range(pool) : \A n \in DOMAIN self_guesses : EncodesTo(n, W)
            /\ Len(self_guesses) = 1 =>
                   Range(pool) = {W \in Range(self_word_list) : EncodesTo(1, W)}

\* the other direction: a word of the list that every recorded guess
\* encodes to its recorded hint is kept
C20_ConsistentKept ==
    pc = "game" =>
        \A W \in Range(self_word_list) :
            (\A n \in DOMAIN self_guesses : EncodesTo(n, W)) =>
                W \in Range(Pool(fn, self_guesses, self_hints, self_word_list))

(***************************************************************************)
(* Sessions over the seven-word list: the words of the list are guessed    *)
(***************************************************************************)
\* The model plays at most MaxTurns guesses in these sessions.
MaxTurns == 3

InitPool ==
    /\ fn \in {"wordle.Game", "wordle_fast.Game"}
    /\ pc = "game"
    /\ args = <<>>
    /\ ret = NoCall
    /\ self_word_list = custom_list
    /\ self_answer \in Range(custom_list)
    /\ self_guesses = <<>>
    /\ self_hints = <<>>
    /\ self_games = <<>>
    /\ NoWorkers

\* Game.guess (wordle.py) or Game.make_guess (wordle_fast.py) with a word
\* of the list
Pool_guess ==
    /\ Len(self_guesses) < MaxTurns
    /\ \E word \in Range(self_word_list) :
           IF fn = "wordle.Game"
               THEN LET out == guess_outcome(self_guesses, self_word_list, self_answer,
                                             word, FALSE)
                    IN  /\ args' = [_guess |-> word, skip_validation |-> FALSE]
                        /\ ret' = out.ret
                        /\ self_guesses' = out.guesses
                        /\ UNCHANGED self_hints
               ELSE LET out == make_guess_outcome(self_guesses, self_hints,
                                                  self_word_list, self_answer, word)
                    IN  /\ args' = [guess |-> word]
                        /\ ret' = out.ret
                        /\ self_guesses' = out.guesses
                        /\ self_hints' = out.hints
    /\ UNCHANGED <<fn, pc, self_answer, self_word_list, self_games>>
    /\ UNCHANGED par_vars

NextPool == Pool_guess

SpecPool == InitPool /\ [][NextPool]_vars

(***************************************************************************)
(* wordle.get_best_move with must_answer                                   *)
(***************************************************************************)
\* C22: wordle.get_best_move called with must_answer=True returns a member of
\* the given possible-word list, for every value of explore and every
\* all_words list.
C22_MustAnswerInList ==
    (pc = "done" /\ fn = "get_best_move" /\ args.must_answer /\ ret.exc = "none") =>
        word_in(ret.val, args.word_list)

\* without explore, a call with must_answer returns a member of the list
C22_MustAnswerNoExplore ==
    (/\ pc = "done" /\ fn = "get_best_move" /\ args.must_answer /\ ~args.explore
     /\ ret.exc = "none") =>
        word_in(ret.val, args.word_list)

\* a call with must_answer and explore on a list of possible words that are
\* not all the words, which returns a word
C22_ExploreMustAnswer ==
    /\ pc = "done"
    /\ fn = "get_best_move"
    /\ args.must_answer
    /\ args.explore
    /\ Len(args.word_list) >= 2
    /\ ret.exc = "none"
    /\ ~word_in(ret.val, args.word_list)

(***************************************************************************)
(* Caps in a session whose hints the encoder computes against one answer    *)
(***************************************************************************)
\* max_occurrences aggregated from the first k guesses of the session
CapsAfter(k) ==
    IF fn = "wordle.Game"
        THEN information(SubSeq(self_guesses, 1, k)).max_occurrences
        ELSE get_info_from_hints(SubSeq(self_guesses, 1, k),
                                 SubSeq(self_hints, 1, k)).max_occurrences

\* C23: in a session (every hint is the encoder's, against the one answer)
\* every guess that derives a maximum-occurrence cap for a letter derives the
\* number of occurrences of that letter in the answer, so every entry of
\* max_occurrences is that number and no entry changes as guesses accumulate.
C23_CapIsAnswerCount ==
    pc = "game" =>
        /\ \A n \in DOMAIN self_guesses : \A m \in Marks(n) :
               CapsLetter(n, m[1]) =>
                   IncludedCount(n, m[1]) = count(upper(self_answer), m[1])
        /\ \A k \in 1..Len(self_guesses) : \A letter \in DOMAIN CapsAfter(k) :
               /\ CapsAfter(k)[letter] = count(upper(self_answer), letter)
               /\ letter \in DOMAIN CapsAfter(Len(self_guesses))
               /\ CapsAfter(Len(self_guesses))[letter] = CapsAfter(k)[letter]

\* two guesses of a session derive a cap for the same letter, and a third
\* letter or guess derives none
C23_Witness ==
    /\ pc = "game"
    /\ Len(self_guesses) >= 2
    /\ \E m \in Marks(1) : CapsLetter(1, m[1]) /\ CapsLetter(2, m[1])
    /\ RecordedWord(1) # RecordedWord(2)
    /\ DOMAIN CapsAfter(1) # {}

(***************************************************************************)
(* wordle_fast.get_best_move with one possible answer left                 *)
(***************************************************************************)
\* C27: when the possible answers restricted to the answer list are a single
\* word, wordle_fast.get_best_move returns that word, for every word list,
\* answer list and iv_threshold.
C27_SingleCandidate ==
    (pc = "done" /\ fn = "wordle_fast.get_best_move" /\ Cardinality(MoveP) = 1) =>
        /\ ret.exc = "none"
        /\ ret.val \in MoveP

\* at or above the threshold, a single candidate is returned
C27_SingleCandidateExploit ==
    (/\ pc = "done" /\ fn = "wordle_fast.get_best_move" /\ Cardinality(MoveP) = 1
     /\ ~MoveExplores) =>
        /\ ret.exc = "none"
        /\ ret.val \in MoveP

(***************************************************************************)
(* The two revisions side by side                                          *)
(***************************************************************************)
\* calls of the two encoders and sessions of the two Games
InitAgree == InitMask \/ InitPool

NextAgree == NextMask \/ NextPool

SpecAgree == InitAgree /\ [][NextAgree]_vars

\* the mapping '.'/WRONG, 'P'/MISPLACED, 'C'/CORRECT, on patterns
AsHint(mask) ==
    [i \in DOMAIN mask |->
        CASE mask[i] = "C" -> "CORRECT"
          [] mask[i] = "P" -> "MISPLACED"
          [] OTHER -> "WRONG"]

\* the recorded history of a session in the shape of wordle_fast.py:
\* guesses as words, hints as patterns
AsFastGuesses == [n \in DOMAIN self_guesses |-> RecordedWord(n)]

AsFastHints ==
    IF fn = "wordle.Game"
        THEN [n \in DOMAIN self_guesses |->
                 [i \in DOMAIN self_guesses[n] |->
                     CASE self_guesses[n][i].state = "CORRECT" -> "CORRECT"
                       [] self_guesses[n][i].state = "POSITION" -> "MISPLACED"
                       [] OTHER -> "WRONG"]]
        ELSE self_hints

\* and in the shape of wordle.py: lists of Letter objects
AsGuessLists ==
    IF fn = "wordle.Game"
        THEN self_guesses
        ELSE [n \in DOMAIN self_guesses |->
                 [i \in DOMAIN self_guesses[n] |->
                     Letter(self_guesses[n][i], i - 1,
                            CASE self_hints[n][i] = "CORRECT" -> "CORRECT"
                              [] self_hints[n][i] = "MISPLACED" -> "POSITION"
                              [] OTHER -> "WRONG")]]

\* C28: the two revisions agree: for every upper-case guess and answer
\* _guess_mask and get_hint_from_guess return the same pattern under the
\* mapping '.'/WRONG, 'P'/MISPLACED, 'C'/CORRECT, and for every session
\* history over the same list the two aggregate-then-filter pipelines keep
\* the same words in the same order.
C28_RevisionsAgree ==
    /\ (pc = "done" /\ fn = "_guess_mask") =>
           AsHint(ret.val) = get_hint_from_guess(args.word, args.answer)
    /\ (pc = "done" /\ fn = "get_hint_from_guess") =>
           ret.val = AsHint(_guess_mask(args.word, args.answer))
    /\ pc = "game" =>
           LET kept == Game_possible_answers(AsGuessLists, self_word_list)
           IN  [i \in DOMAIN kept |-> upper(kept[i])] =
                   Game_possible_words(AsFastGuesses, AsFastHints, self_word_list)

\* a session of two guesses with a cap derived, the pool down to two words or
\* more but shorter than the list
C28_Witness ==
    /\ pc = "game"
    /\ Len(self_guesses) = 2
    /\ DOMAIN CapsAfter(2) # {}
    /\ Len(Pool(fn, self_guesses, self_hints, self_word_list)) >= 2
    /\ Len(Pool(fn, self_guesses, self_hints, self_word_list)) < Len(self_word_list)

(***************************************************************************)
(* The history of a wordle_fast.Game                                       *)
(***************************************************************************)
\* C29: in every reachable state of a wordle_fast.Game, guesses and hints
\* have the same length, hints[i] is the encoder's hint of guesses[i] against
\* the answer, is_won holds exactly when the last guess is the answer, the
\* answer occurs in the history at most once and only as its last entry, and
\* score is the history length when won and -1 otherwise.
C29_History ==
    (pc = "game" /\ fn = "wordle_fast.Game") =>
        LET n == Len(self_guesses)
            answered == n > 0 /\ self_guesses[n] = self_answer
        IN  /\ Len(self_hints) = n
            /\ \A i \in 1..n :
                   self_hints[i] = get_hint_from_guess(self_guesses[i], self_answer)
            /\ fast_is_won(self_guesses, self_hints) <=> answered
            /\ \A i \in 1..n : self_guesses[i] = self_answer => i = n
            /\ fast_score(self_guesses, self_hints) = IF answered THEN n ELSE -1

\* a Game won at its second guess or later and called again
C29_Witness ==
    /\ pc = "game"
    /\ fn = "wordle_fast.Game"
    /\ Len(self_guesses) >= 2
    /\ self_guesses[Len(self_guesses)] = self_answer
    /\ ret = Returned(None)

(***************************************************************************)
(* Termination of wordle_fast.bot_play                                     *)
(***************************************************************************)
\* bot_play runs on: a step is taken whenever one is possible. This is
\* WF_vars(NextBot) written out, []<>(~ENABLED <<NextBot>>_vars) \/
\* []<><<NextBot>>_vars, with the enabling condition in its closed form: a
\* step of NextBot is possible exactly when pc is not "done" (Bot_initial at
\* "initial"; at "loop" Bot_return when the game is over, a turn otherwise).
SpecBotFair == SpecBot /\ ([]<>(pc = "done") \/ []<><<NextBot>>_vars)

\* the answer is in the word list and in the answer list of the call
AnswerInBoth ==
    /\ fn = "wordle_fast.bot_play"
    /\ self_answer \in Range(self_word_list)
    /\ self_answer \in Range(IF args.answer_list = <<>> THEN load_answers
                             ELSE args.answer_list)

\* C26: wordle_fast.bot_play terminates for every answer that is in both the
\* word list and the answer list: every guess chosen by get_best_move is a
\* member of the word list and is accepted by make_guess, each iteration of
\* the loop lengthens the history by exactly one, the history never holds
\* more than MAX_GUESSES guesses, and the call ends, with the game over when
\* it returns.
C26_Terminates ==
    /\ [][(AnswerInBoth /\ pc = "loop" /\ ~fast_is_over(self_guesses, self_hints)) =>
              /\ ret'.exc = "none"
              /\ ret'.val \in Range(self_word_list)
              /\ self_guesses' = Append(self_guesses, ret'.val)
              /\ Len(self_hints') = Len(self_hints) + 1
              /\ pc' = "loop"]_vars
    /\ [](AnswerInBoth => Len(self_guesses) <= MAX_GUESSES)
    /\ []((AnswerInBoth /\ pc = "done" /\ ret.exc = "none") =>
              fast_is_over(self_guesses, self_hints))
    /\ (AnswerInBoth => <>(pc = "done"))

\* a call that returned after get_best_move chose two guesses or more
C26_Witness ==
    /\ AnswerInBoth
    /\ pc = "done"
    /\ ret.exc = "none"
    /\ Len(args.initial_guesses) = 1
    /\ Len(self_guesses) >= 3

(***************************************************************************)
(* The parallel maps under fair scheduling                                 *)
(***************************************************************************)
\* the caller and every started worker keep running: the operating system
\* schedules every process and thread that can take a step
SpecParFair ==
    /\ SpecPar
    /\ WF_vars(Par_start) /\ WF_vars(Par_put) /\ WF_vars(Par_all_put) /\ WF_vars(Par_join)
    /\ \A w \in 1..MaxProcs :
           /\ WF_vars(w \in DOMAIN processes /\ Worker_get(w))
           /\ WF_vars(w \in DOMAIN processes /\ Worker_run(w))

\* a call of multi_process in which the function raises on no item
NoItemRaises ==
    /\ fn = "multi_process"
    /\ \A i \in DOMAIN args.input_list : ~raises(args.input_list[i])

\* where the work item of an index is: waiting in the queue, held by a
\* worker, or stored in the output
InQueue(index) == Cardinality({k \in DOMAIN main_queue : main_queue[k][2] = index})
HeldBy(index) ==
    {w \in DOMAIN processes : processes[w].st = "run" /\ processes[w].index = index}
Stored(index) == IF index \in dict_keys(output) THEN 1 ELSE 0

\* every item put so far is in exactly one place, and no other index is anywhere
OneWorkerPerItem ==
    /\ \A index \in 0..(put_count - 1) :
           InQueue(index) + Cardinality(HeldBy(index)) + Stored(index) = 1
    /\ \A index \in put_count..MaxInput :
           InQueue(index) + Cardinality(HeldBy(index)) + Stored(index) = 0

\* the end signals sent are each still in the queue or were read by one
\* worker, which then stopped, and no worker stopped without one
OneSentinelPerWorker ==
    InQueue(-1) + Cardinality({w \in DOMAIN processes : processes[w].st = "exit"})
        = (IF pc \in {"join", "done"} THEN args.num ELSE 0)

Stopped == {w \in DOMAIN processes : processes[w].st = "exit"}

\* the claim as stated: each work item is taken and executed by exactly one
\* worker, each worker consumes exactly one stop sentinel, no worker stops
\* while a work item is still unprocessed (its result not yet stored), every
\* worker eventually exits, and after the joins the result map has an entry
\* for every input index.
C24_AsStated ==
    /\ [](NoItemRaises => (OneWorkerPerItem /\ OneSentinelPerWorker))
    /\ []((NoItemRaises /\ Stopped # {}) =>
              \A i \in DOMAIN args.input_list : Stored(i - 1) = 1)
    /\ [](NoItemRaises /\ pc = "done" =>
              /\ Stopped = DOMAIN processes
              /\ dict_keys(output) = {i - 1 : i \in DOMAIN args.input_list})
    /\ (NoItemRaises => <>(pc = "done"))

\* C24 (amended): in multi_process, for every interleaving of the workers and
\* when no work item raises: each work item is taken from the queue and
\* executed by exactly one worker, each worker consumes exactly one stop
\* sentinel, no worker stops while a work item is still waiting in the queue
\* (another worker may still be executing an item it holds), every worker
\* eventually exits, and after the joins the result map has an entry for
\* every input index.
C24_Workers ==
    /\ [](NoItemRaises => (OneWorkerPerItem /\ OneSentinelPerWorker))
    /\ []((NoItemRaises /\ Stopped # {}) =>
              /\ put_count = Len(args.input_list)
              /\ \A i \in DOMAIN args.input_list : InQueue(i - 1) = 0)
    /\ [](NoItemRaises /\ pc = "done" =>
              /\ Stopped = DOMAIN processes
              /\ dict_keys(output) = {i - 1 : i \in DOMAIN args.input_list})
    /\ (NoItemRaises => <>(pc = "done"))

\* a finished call of two workers in which one worker executed every item
\* and the other stopped before the last result was stored
C24_Witness ==
    /\ NoItemRaises
    /\ pc = "done"
    /\ args.num = MaxProcs
    /\ Len(args.input_list) = MaxInput
    /\ \E i, j \in DOMAIN output : i < j /\ output[i].k > output[j].k

(***************************************************************************)
(* Termination of _batch_wrap                                              *)
(***************************************************************************)
\* C25: _batch_wrap terminates: for every non-empty input list, every number
\* of threads and every pattern of items whose function raises, under both
\* raise_exception settings, every queued item is eventually marked done,
\* q.join() returns and the call returns to its caller.
C25_Terminates ==
    (fn = "_batch_wrap" /\ args.input_list # <<>>) =>
        <>(pc = "done" /\ unfinished = 0 /\ main_queue = <<>>)

\* the call terminates when raise_exception is not set
C25_TerminatesNullPolicy ==
    (fn = "_batch_wrap" /\ args.input_list # <<>> /\ ~args.raise_exception) =>
        <>(pc = "done" /\ unfinished = 0 /\ main_queue = <<>>)

\* work is left (an item to put, or a queued item not marked done) and every
\* thread has been ended by an exception: q.join() cannot return
C25_Stranded ==
    /\ fn = "_batch_wrap"
    /\ pc = "join"
    /\ unfinished > 0
    /\ \A w \in DOMAIN processes : processes[w].st = "dead"

(***************************************************************************)
(* multi_wordle: several boards played with one shared guess               *)
(*                                                                         *)
(* multi_wordle.py imports load_answers, get_optimal_entropies,            *)
(* MAX_GUESSES and a Game with make_guess, possible_answers and            *)
(* max_guesses from the module wordle; the wordle.py and wordle_fast.py of *)
(* the sources have none of them, so the revision it was written for is    *)
(* absent.  The Game and the entropy functions of that revision are        *)
(* modelled as the specification describes them, next to the nearest       *)
(* revision present (wordle_fast); what multi_wordle.py itself contains is *)
(* modelled from it.                                                       *)
(***************************************************************************)
DEFAULT_NUM_GAMES == 2

RECURSIVE GCD(_, _)
GCD(a, b) == IF b = 0 THEN a ELSE GCD(b, a % b)

LCM(a, b) == (a * b) \div GCD(a, b)

\* the fraction in lowest terms
Reduced(f) == LET g == GCD(f.num, f.den) IN Fraction(f.num \div g, f.den \div g)

\* the entropy log(arg) / den brought to the denominator L
H_over(h, L) ==
    IF h.den = 0 THEN Fraction(1, 1)
    ELSE Reduced(Fraction(Pow(h.arg.num, L \div h.den), Pow(h.arg.den, L \div h.den)))

\* the denominator two entropies share
H_common(h1, h2) ==
    LCM(IF h1.den = 0 THEN 1 ELSE h1.den, IF h2.den = 0 THEN 1 ELSE h2.den)

\* h1 + h2 for entropies of different rankings
H_add(h1, h2) ==
    LET L == H_common(h1, h2)
        a == H_over(h1, L)
        b == H_over(h2, L)
    IN  [den |-> L, arg |-> Reduced(Fraction(a.num * b.num, a.den * b.den))]

\* h1 < h2 for entropies of different rankings
H_sum_less(h1, h2) ==
    LET L == H_common(h1, h2)
        a == H_over(h1, L)
        b == H_over(h2, L)
    IN  a.num * b.den < b.num * a.den

\* an entropy map is kept as its items in insertion order, each [word, H]
map_has(e_map, word) == \E i \in DOMAIN e_map : e_map[i].word = word

\* e_map.get(word, default)
map_get(e_map, word, default) ==
    IF map_has(e_map, word)
        THEN e_map[CHOOSE i \in DOMAIN e_map : e_map[i].word = word].H
        ELSE default

\* e_map[word] = H: a new key goes last, a known key keeps its place
map_set(e_map, word, H) ==
    IF map_has(e_map, word)
        THEN [i \in DOMAIN e_map |->
                 IF e_map[i].word = word THEN [word |-> word, H |-> H] ELSE e_map[i]]
        ELSE Append(e_map, [word |-> word, H |-> H])

\* get_optimal_entropies(possible_answers, word_list, answer_list): the
\* entropy of every candidate guess against the possible answers that are in
\* the answer list; the candidates are the whole word list while the
\* information value is below the threshold, the possible answers after
get_optimal_entropies(possible_answers, word_list, answer_list) ==
    LET possible == restricted_to(possible_answers, answer_list)
        iv == get_information_value(Fraction(Len(possible), Len(answer_list)))
        keys == insertion_order(IF iv_below(iv, IV_THRESHOLD) THEN word_list ELSE possible)
    IN  [i \in DOMAIN keys |->
            [word |-> keys[i], H |-> compute_entropy(keys[i], possible)]]

\* sort_by_entropy over summed entropies: highest first, the sort is stable
multi_sort_by_entropy(entropy_map) ==
    LET pos(i) == 1 + Cardinality({j \in DOMAIN entropy_map :
                                      H_sum_less(entropy_map[i].H, entropy_map[j].H)})
                    + Cardinality({j \in 1..(i - 1) :
                                      /\ ~H_sum_less(entropy_map[i].H, entropy_map[j].H)
                                      /\ ~H_sum_less(entropy_map[j].H, entropy_map[i].H)})
        at(p) == CHOOSE i \in DOMAIN entropy_map : pos(i) = p
    IN  [p \in DOMAIN entropy_map |-> entropy_map[at(p)].word]

RECURSIVE add_items_last_wins(_, _, _)
\* a loop that stores the entropy of the last map instead of adding it
add_items_last_wins(agg_entropy, e_map, i) ==
    IF i > Len(e_map) THEN agg_entropy
    ELSE add_items_last_wins(map_set(agg_entropy, e_map[i].word, e_map[i].H), e_map, i + 1)

RECURSIVE add_items(_, _, _)
\* for word, entropy in e_map.items():
\*     agg_entropy[word] = agg_entropy.get(word, 0) + entropy
add_items(agg_entropy, e_map, i) ==
    IF i > Len(e_map) THEN agg_entropy
    ELSE add_items(map_set(agg_entropy, e_map[i].word,
                           H_add(map_get(agg_entropy, e_map[i].word, ZeroEntropy), e_map[i].H)),
                   e_map, i + 1)

RECURSIVE aggregate_from(_, _, _)
aggregate_from(agg_entropy, entropy_maps, m) ==
    IF m > Len(entropy_maps) THEN agg_entropy
    ELSE aggregate_from(add_items(agg_entropy, entropy_maps[m], 1), entropy_maps, m + 1)

\* multi_wordle.aggregate_entropies
aggregate_entropies(entropy_maps) == aggregate_from(<<>>, entropy_maps, 1)

\* multi_wordle.get_best_move_multi: best_moves[0] of an empty ranking raises
get_best_move_multi(possible_answer_list, word_list, answer_list) ==
    LET \* multi_process with no item raising and nothing zipped: the results
        \* of the items in the order of the items
        e_maps == [i \in DOMAIN possible_answer_list |->
                      get_optimal_entropies(possible_answer_list[i], word_list, answer_list)]
        agg_entropy == aggregate_entropies(e_maps)
        best_moves == multi_sort_by_entropy(agg_entropy)
    IN  IF best_moves = <<>> THEN Raised("IndexError") ELSE Returned(best_moves[1])
(***************************************************************************)
(* MultiGame                                                               *)
(***************************************************************************)
\* the Game of a board, Game(answer, word_list, max_guesses=max_guesses)
NewBoard(answer, max_guesses) ==
    [answer |-> upper(answer), max_guesses |-> max_guesses, guesses |-> <<>>, hints |-> <<>>]

\* Game.is_won, Game.is_over and Game.possible_answers of a board
Board_is_won(game) == fast_is_won(game.guesses, game.hints)
Board_is_over(game) == Len(game.guesses) >= game.max_guesses \/ Board_is_won(game)
Board_possible_answers(game, word_list) ==
    Game_possible_words(game.guesses, game.hints, word_list)

\* Game.make_guess of a board: nothing happens on a board that is over, a
\* word of the wrong length or not in the word list is rejected, any other
\* is recorded with its hint
Board_make_guess(game, word_list, guess_arg) ==
    LET guess == upper(guess_arg)
    IN  IF Board_is_over(game) THEN [ret |-> Returned(None), game |-> game]
        ELSE IF Len(guess) # 5 \/ guess \notin Range(word_list)
            THEN [ret |-> Raised("AssertionError"), game |-> game]
        ELSE LET hint == get_hint_from_guess(guess, game.answer)
             IN  [ret |-> Returned(hint),
                  game |-> [game EXCEPT !.guesses = Append(@, guess),
                                        !.hints = Append(@, hint)]]

\* MultiGame.is_over
MultiGame_is_over(games) == \A b \in DOMAIN games : Board_is_over(games[b])

RECURSIVE games_make_guess(_, _, _, _)
\* for game in self.games: game.make_guess(guess)
\* the loop ends at the first board that raises
games_make_guess(games, word_list, guess, b) ==
    IF b > Len(games) THEN [ret |-> Returned(None), games |-> games]
    ELSE LET out == Board_make_guess(games[b], word_list, guess)
         IN  IF out.ret.exc # "none"
                 THEN [ret |-> out.ret, games |-> games]
                 ELSE games_make_guess([games EXCEPT ![b] = out.game], word_list, guess, b + 1)

\* a list of the possible answers of every board, over or not
possible_answer_list_all_boards(games, word_list) ==
    [b \in DOMAIN games |-> Board_possible_answers(games[b], word_list)]

\* [game.possible_answers for game in self.games if not game.is_over]
possible_answer_list_of(games, word_list) ==
    LET live == SelectSeq(games, LAMBDA game : ~Board_is_over(game))
    IN  [b \in DOMAIN live |-> Board_possible_answers(live[b], word_list)]

\* MultiGame.get_best_guess
MultiGame_get_best_guess(games, word_list, answer_list) ==
    get_best_move_multi(possible_answer_list_of(games, word_list), word_list, answer_list)

\* the calls of MultiGame.make_guess in a session are bounded
MaxCalls == 4

\* the words MultiGame.make_guess is called with: the words of the list, one
\* in lower case, one that is in no list
MultiGuessArgs == Range(fast_load_words) \cup {uk_txt[2], NonListWord}

\* the word list and answer list get_best_move_multi is called with: words of
\* word_lists/uk.txt of which some tell the answers of one board apart, some
\* those of the other, some both
MultiPool == << upper(uk_txt[2]), upper(uk_txt[3]), upper(uk_txt[4]), upper(uk_txt[7]) >>

\* the lists of possible answers get_best_move_multi is called with
BoardLists == DistinctLists(Range(MultiPool), 1, MaxAnswers)

InitMulti ==
    /\ ret = NoCall
    /\ self_answer = <<>>
    /\ self_guesses = <<>>
    /\ self_hints = <<>>
    /\ NoWorkers
    /\ \/ /\ fn = "MultiGame"
          /\ pc = "game"
          /\ self_word_list = fast_load_words
          /\ \E max_guesses \in 1..MaxTurns :
             \E answers \in [1..DEFAULT_NUM_GAMES -> Range(load_answers)] :
                 /\ args = [answer_list |-> load_answers, max_guesses |-> max_guesses,
                            answers |-> answers]
                 /\ self_games = [b \in DOMAIN answers |-> NewBoard(answers[b], max_guesses)]
       \/ /\ fn = "get_best_move_multi"
          /\ pc = "call"
          /\ self_word_list = <<>>
          /\ self_games = <<>>
          /\ args \in [possible_answer_list : UNION {[1..n -> BoardLists] : n \in 0..DEFAULT_NUM_GAMES},
                       word_list : {MultiPool},
                       answer_list : {MultiPool}]

Call_get_best_move_multi ==
    /\ pc = "call"
    /\ fn = "get_best_move_multi"
    /\ ret' = get_best_move_multi(args.possible_answer_list, args.word_list, args.answer_list)
    /\ pc' = "done"
    /\ UNCHANGED <<fn, args, game_vars>>
    /\ UNCHANGED par_vars

\* the arguments of the session with the last call and what it handed on
Called(name, guess, handed) ==
    [answer_list |-> args.answer_list, max_guesses |-> args.max_guesses,
     answers |-> args.answers, call |-> name, guess |-> guess, handed |-> handed]

\* MultiGame.make_guess(guess)
MultiGame_make_guess ==
    /\ fn = "MultiGame"
    /\ Len(self_guesses) < MaxCalls
    /\ \E guess \in MultiGuessArgs :
       \E out \in {games_make_guess(self_games, self_word_list, guess, 1)} :
           /\ self_guesses' = Append(self_guesses, guess)
           /\ self_games' = out.games
           /\ ret' = out.ret
           /\ args' = Called("make_guess", guess, <<>>)
    /\ UNCHANGED <<fn, pc, self_answer, self_word_list, self_hints>>
    /\ UNCHANGED par_vars

\* MultiGame.make_best_guess()
MultiGame_make_best_guess ==
    /\ fn = "MultiGame"
    /\ \E best \in {MultiGame_get_best_guess(self_games, self_word_list, args.answer_list)} :
           /\ args' = Called("make_best_guess", best.val,
                             possible_answer_list_of(self_games, self_word_list))
           /\ IF best.exc # "none"
                  THEN /\ ret' = best
                       /\ UNCHANGED self_games
                  ELSE \E out \in {games_make_guess(self_games, self_word_list, best.val, 1)} :
                           /\ self_games' = out.games
                           /\ ret' = out.ret
    /\ UNCHANGED <<fn, pc, self_answer, self_word_list, self_guesses, self_hints>>
    /\ UNCHANGED par_vars

\* MultiGame.get_best_guess()
MultiGame_call_get_best_guess ==
    /\ fn = "MultiGame"
    /\ ret' = MultiGame_get_best_guess(self_games, self_word_list, args.answer_list)
    /\ args' = Called("get_best_guess", ret'.val,
                      possible_answer_list_of(self_games, self_word_list))
    /\ UNCHANGED <<fn, pc, game_vars>>
    /\ UNCHANGED par_vars

\* bot_play_multi, one turn of its loop:
\* while not multi_game.is_over: multi_game.make_guess(multi_game.get_best_guess())
bot_play_multi_turn ==
    /\ fn = "MultiGame"
    /\ Len(self_guesses) < MaxCalls
    /\ ~MultiGame_is_over(self_games)
    /\ \E best \in {MultiGame_get_best_guess(self_games, self_word_list, args.answer_list)} :
       \E out \in {games_make_guess(self_games, self_word_list, best.val, 1)} :
           /\ self_guesses' = Append(self_guesses, best.val)
           /\ self_games' = out.games
           /\ ret' = out.ret
           /\ args' = Called("bot_play_multi", best.val,
                             possible_answer_list_of(self_games, self_word_list))
    /\ UNCHANGED <<fn, pc, self_answer, self_word_list, self_hints>>
    /\ UNCHANGED par_vars

NextMulti ==
    \/ Call_get_best_move_multi
    \/ MultiGame_make_guess
    \/ MultiGame_make_best_guess
    \/ MultiGame_call_get_best_guess
    \/ bot_play_multi_turn

SpecMulti == InitMulti /\ [][NextMulti]_vars

\* the lists of possible answers the last call ranked, and its lists of words
MultiLists == IF fn = "MultiGame" THEN args.handed ELSE args.possible_answer_list
MultiWords == IF fn = "MultiGame" THEN self_word_list ELSE args.word_list
MultiAnswers == args.answer_list

RECURSIVE TotalEntropy(_, _)
\* the entropy of a word against each of the first k lists, added up
TotalEntropy(word, k) ==
    IF k = 0 THEN ZeroEntropy
    ELSE H_add(TotalEntropy(word, k - 1),
               compute_entropy(word, restricted_to(MultiLists[k], MultiAnswers)))

\* the boards of the session that are not over, in the order of the boards
LiveBoards == SelectSeq(self_games, LAMBDA game : ~Board_is_over(game))

\* a call that ranked the words and returned one
RankedMulti ==
    \/ fn = "get_best_move_multi" /\ pc = "done" /\ args.possible_answer_list # <<>>
    \/ /\ fn = "MultiGame"
       /\ "call" \in DOMAIN args
       /\ args.call = "get_best_guess"
       /\ args.handed # <<>>

C21_OneBoardOver ==
    /\ fn = "MultiGame"
    /\ "call" \in DOMAIN args
    /\ args.call = "get_best_guess"
    /\ Len(args.handed) = 1
    /\ Len(self_games) = 2
    /\ ret.exc = "none"

\* MultiGame.score
MultiGame_score == Len(self_guesses)

\* a list of words is the beginning of another, whatever the case of the words
IsPrefixOf(short, long) ==
    /\ Len(short) <= Len(long)
    /\ \A i \in DOMAIN short : upper(short[i]) = upper(long[i])

\* how many guesses the boards were given and took: the boards are given
\* the same words, so the longest history has them all
Submitted ==
    IF self_games = <<>> THEN 0
    ELSE LET b == CHOOSE x \in DOMAIN self_games :
                      \A y \in DOMAIN self_games :
                          Len(self_games[y].guesses) <= Len(self_games[x].guesses)
         IN  Len(self_games[b].guesses)

\* C30: in a MultiGame, after any calls of make_guess and make_best_guess,
\* the guess history of every board is a prefix of MultiGame.guesses and
\* MultiGame.score is the number of guesses submitted to the boards.
C30_Bookkeeping ==
    fn = "MultiGame" =>
        /\ \A b \in DOMAIN self_games : IsPrefixOf(self_games[b].guesses, self_guesses)
        /\ MultiGame_score = Submitted

\* no call changes the history of a board that is over
C30_OverBoardsKeep ==
    [][fn = "MultiGame" =>
          \A b \in DOMAIN self_games :
              Board_is_over(self_games[b]) => self_games'[b] = self_games[b]]_vars

\* make_best_guess gave the boards a word that MultiGame.guesses does not hold
C30_Unrecorded ==
    /\ fn = "MultiGame"
    /\ "call" \in DOMAIN args
    /\ args.call = "make_best_guess"
    /\ ret.exc = "none"
    /\ \E b \in DOMAIN self_games : Len(self_games[b].guesses) > Len(self_guesses)

\* make_guess recorded a word that every board rejected
C30_RejectedCounted ==
    /\ fn = "MultiGame"
    /\ "call" \in DOMAIN args
    /\ args.call = "make_guess"
    /\ ret.exc = "AssertionError"
    /\ MultiGame_score > Submitted

\* one board over and unchanged by a call that another board took
C30_OneBoardAdvanced ==
    /\ fn = "MultiGame"
    /\ \E b, c \in DOMAIN self_games :
           /\ Board_is_won(self_games[b])
           /\ Len(self_games[c].guesses) > Len(self_games[b].guesses)

====
